---- MODULE Spec2Model ----
(***************************************************************************)
(* Model of the rulesync adapters: canonical record -> tool record ->      *)
(* canonical record.  Every adapter is a pure conversion; a run of the     *)
(* model is one generate pass (export) followed by one import pass on one  *)
(* record.  JavaScript objects are records whose optional keys are absent  *)
(* from the DOMAIN; objects whose key order matters are sequences of       *)
(* [key, value] pairs in insertion order.  Strings the code inspects       *)
(* character by character are sequences of one-character strings.          *)
(***************************************************************************)
EXTENDS Integers, Sequences, FiniteSets, TLC

VARIABLES
    feature,     \* which adapter the pass runs
    stage,       \* "canonical" -> "exported" -> "imported", or "failed"
    canonical,   \* the canonical record the pass starts from
    native,      \* the tool record fromRulesyncX produced
    reimported,  \* the canonical record toRulesyncX produced
    failure,     \* the error thrown or its message; "", <<>> or None when none
    platform,    \* process.platform
    warnings,    \* number of logger.warn calls so far
    global,      \* the global option of the pass
    run,         \* the state of a generate run: configuration, position, results, log
    cache        \* matter.cache of gray-matter: the files parsed so far in this process

vars == <<feature, stage, canonical, native, reimported, failure, platform, warnings, global, run,
          cache>>

None == [none |-> TRUE]

\* ------------------------------------------------------------------ helpers

Has(r, k) == k \in DOMAIN r

\* {...a, ...b}: keys of b win
Spread(a, b) == b @@ a

\* ...(cond && {k: v})
Opt(cond, k, v) == IF cond THEN (k :> v) ELSE <<>>

\* ...(r.k && {k2: r.k}) for an object-valued key (truthy whenever present)
Copy(r, k, k2) == IF k \in DOMAIN r THEN (k2 :> r[k]) ELSE <<>>

\* ...(r.k && {k2: r.k}) for a string-valued key (truthy unless "")
CopyTruthy(r, k, k2) == IF k \in DOMAIN r /\ r[k] # "" THEN (k2 :> r[k]) ELSE <<>>

Without(r, ks) == [k \in (DOMAIN r) \ ks |-> r[k]]

StartsWith(s, p) == Len(s) >= Len(p) /\ SubSeq(s, 1, Len(p)) = p

Slice(s, n) == SubSeq(s, n + 1, Len(s))

Range(s) == {s[i] : i \in DOMAIN s}

SeqsUpTo(S, n) == UNION {[1..k -> S] : k \in 0..n}

\* ------------------------------------------------------------------ bounds

MaxTools == 1   \* longest enabledTools / disabledTools list
MaxArgs == 2    \* longest args list
MaxGlobs == 2   \* longest globs list

\* ===================================================== OpenCode MCP adapter

\* Object.keys order of a Record<string, boolean>: assignment to an existing
\* key keeps its position
SetKey(map, k, v) ==
    IF \E i \in DOMAIN map : map[i].key = k
    THEN [i \in DOMAIN map |-> IF map[i].key = k THEN [key |-> k, value |-> v] ELSE map[i]]
    ELSE Append(map, [key |-> k, value |-> v])

ToolKeyDropsServer(serverName, tool) == tool

ToolKey(serverName, tool) == serverName \o <<"_">> \o tool

RECURSIVE SetTools(_, _, _, _)
SetTools(map, serverName, toolList, v) ==
    IF toolList = <<>> THEN map
    ELSE SetTools(SetKey(map, ToolKey(serverName, Head(toolList)), v),
                  serverName, Tail(toolList), v)

\* lines 142-152: one server's lists written into the shared tools map
CollectTools(map, serverName, cfg) ==
    LET afterEnabled ==
            IF Has(cfg, "enabledTools")
            THEN SetTools(map, serverName, cfg.enabledTools, TRUE) ELSE map
    IN  IF Has(cfg, "disabledTools")
        THEN SetTools(afterEnabled, serverName, cfg.disabledTools, FALSE)
        ELSE afterEnabled

Truthy(cfg, k) == Has(cfg, k) /\ cfg[k] # ""

IsRemote(cfg) ==
    \/ (Has(cfg, "type") /\ cfg.type \in {"sse", "http"})
    \/ Truthy(cfg, "url")

EnabledOfNotInverted(cfg) == IF Has(cfg, "disabled") THEN cfg.disabled ELSE TRUE

EnabledOf(cfg) == IF Has(cfg, "disabled") THEN ~cfg.disabled ELSE TRUE

\* lines 154-184: one canonical server as an OpenCode server
ToOpencodeServer(cfg) ==
    IF IsRemote(cfg)
    THEN Spread([type |-> "remote",
                 url |-> IF Has(cfg, "url") THEN cfg.url
                         ELSE IF Has(cfg, "httpUrl") THEN cfg.httpUrl ELSE "",
                 enabled |-> EnabledOf(cfg)],
                Copy(cfg, "headers", "headers"))
    ELSE LET commandArray ==
                 (IF Truthy(cfg, "command") THEN <<cfg.command>> ELSE <<>>)
                 \o (IF Has(cfg, "args") THEN cfg.args ELSE <<>>)
         IN  Spread(Spread([type |-> "local",
                            command |-> commandArray,
                            enabled |-> EnabledOf(cfg)],
                           Copy(cfg, "env", "environment")),
                    CopyTruthy(cfg, "cwd", "cwd"))

RECURSIVE ToolsOfServers(_, _)
ToolsOfServers(map, servers) ==
    IF servers = <<>> THEN map
    ELSE ToolsOfServers(CollectTools(map, Head(servers).name, Head(servers).config),
                        Tail(servers))

convertToOpencodeFormat(mcpServers) ==
    [mcp |-> [i \in DOMAIN mcpServers |->
                [name |-> mcpServers[i].name,
                 config |-> ToOpencodeServer(mcpServers[i].config)]],
     tools |-> ToolsOfServers(<<>>, mcpServers)]

\* lines 69-85: the tools of the shared map that start with "<serverName>_"
RECURSIVE ToolsWithPrefix(_, _, _)
ToolsWithPrefix(tools, prefix, enabled) ==
    IF tools = <<>> THEN <<>>
    ELSE LET t == Head(tools)
             rest == ToolsWithPrefix(Tail(tools), prefix, enabled)
         IN  IF StartsWith(t.key, prefix) /\ t.value = enabled
             THEN <<Slice(t.key, Len(prefix))>> \o rest
             ELSE rest

\* lines 87-118: one OpenCode server as a canonical server
FromOpencodeServer(name, cfg, tools) ==
    LET prefix == name \o <<"_">>
        enabledTools == ToolsWithPrefix(tools, prefix, TRUE)
        disabledTools == ToolsWithPrefix(tools, prefix, FALSE)
        toolKeys == Spread(Opt(enabledTools # <<>>, "enabledTools", enabledTools),
                           Opt(disabledTools # <<>>, "disabledTools", disabledTools))
    IN  IF cfg.type = "remote"
        THEN Spread(Spread(Spread([type |-> "sse", url |-> cfg.url],
                                  Opt(cfg.enabled = FALSE, "disabled", TRUE)),
                           Copy(cfg, "headers", "headers")),
                    toolKeys)
        ELSE LET args == Tail(cfg.command)
             IN  Spread(Spread(Spread(Spread(Spread(
                    [type |-> "stdio", command |-> Head(cfg.command)],
                    Opt(args # <<>>, "args", args)),
                    Opt(cfg.enabled = FALSE, "disabled", TRUE)),
                    Copy(cfg, "environment", "env")),
                    CopyTruthy(cfg, "cwd", "cwd")),
                    toolKeys)

\* line 102-105: a local server whose command array is empty or starts with ""
EmptyCommand(cfg) ==
    cfg.type = "local" /\ (cfg.command = <<>> \/ Head(cfg.command) = "")

convertFromOpencodeFormat(opencodeMcp, tools) ==
    IF \E i \in DOMAIN opencodeMcp : EmptyCommand(opencodeMcp[i].config)
    THEN [ok |-> FALSE]
    ELSE [ok |-> TRUE,
          servers |-> [i \in DOMAIN opencodeMcp |->
                         [name |-> opencodeMcp[i].name,
                          config |-> FromOpencodeServer(opencodeMcp[i].name,
                                                        opencodeMcp[i].config, tools)]]]

\* OpencodeMcp.fromRulesyncMcp, lines 288-298: the new opencode.json(c)
OpencodeFromRulesyncMcpKeepsTools(existingJson, mcpServers) ==
    LET converted == convertToOpencodeFormat(mcpServers)
    IN  Spread(Spread(existingJson, [mcp |-> converted.mcp]),
               Opt(converted.tools # <<>>, "tools",
                   (IF Has(existingJson, "tools") THEN existingJson.tools ELSE <<>>)
                   \o converted.tools))

OpencodeFromRulesyncMcp(existingJson, mcpServers) ==
    LET converted == convertToOpencodeFormat(mcpServers)
    IN  Spread(Spread(Without(existingJson, {"tools"}), [mcp |-> converted.mcp]),
               Opt(converted.tools # <<>>, "tools", converted.tools))

\* OpencodeMcp.toRulesyncMcp, line 310
OpencodeToRulesyncMcp(json) ==
    convertFromOpencodeFormat(IF Has(json, "mcp") THEN json.mcp ELSE <<>>,
                              IF Has(json, "tools") THEN json.tools ELSE <<>>)

\* ---- canonical MCP inputs

NameA == <<"a">>
NameAB == <<"a", "_", "b">>
NameB == <<"b">>
ToolX == <<"x">>
ToolBX == <<"b", "_", "x">>

ServerNameLists ==
    {<<NameA>>, <<NameAB>>, <<NameA, NameAB>>, <<NameAB, NameA>>, <<NameA, NameB>>}

ToolLists == SeqsUpTo({ToolX, ToolBX}, MaxTools)

ToolSet(cfg, k) == IF Has(cfg, k) THEN Range(cfg[k]) ELSE {}

OptionalField(k, values) == {<<>>} \cup {(k :> v) : v \in values}

\* a server lists a tool as enabled or as disabled, not as both
ToolConfigs ==
    {tc \in {Spread(e, d) : e \in OptionalField("enabledTools", ToolLists),
                            d \in OptionalField("disabledTools", ToolLists)} :
        ToolSet(tc, "enabledTools") \cap ToolSet(tc, "disabledTools") = {}}

\* servers that differ in their tool lists
ToolInputs ==
    UNION {
        {[i \in DOMAIN names |-> [name |-> names[i],
                                  config |-> Spread([type |-> "stdio", command |-> "npx"], tc[i])]]
            : tc \in [DOMAIN names -> ToolConfigs]}
        : names \in ServerNameLists}

TransportConfigs ==
    {Spread(Spread(Spread(Spread(Spread(t, c), a), d), u), x) :
        t \in OptionalField("type", {"stdio", "sse"}),
        c \in OptionalField("command", {"", "npx"}),
        a \in OptionalField("args", SeqsUpTo({"-y", ""}, MaxArgs)),
        d \in OptionalField("disabled", BOOLEAN),
        u \in OptionalField("url", {"u"}),
        x \in {<<>>, [cwd |-> "/w", env |-> [K |-> "v"]], [cwd |-> "", httpUrl |-> "h"]}}

\* one server, differing in its transport fields
TransportInputs ==
    {<<[name |-> NameA, config |-> Spread(c, tc)]>> :
        c \in TransportConfigs,
        tc \in {<<>>, [enabledTools |-> <<ToolX>>]}}

McpInputs == ToolInputs \cup TransportInputs

\* what opencode.json(c) holds before the pass; None when there is no file
ExistingOpencodeFiles ==
    {None,
     [model |-> "m", mcp |-> <<>>,
      tools |-> <<[key |-> ToolKey(NameA, ToolBX), value |-> FALSE]>>]}

InitMcp ==
    /\ feature = "opencode-mcp"
    /\ stage = "canonical"
    /\ canonical \in McpInputs
    /\ native \in ExistingOpencodeFiles
    /\ reimported = None
    /\ failure = ""
    /\ platform = "linux"
    /\ global = FALSE
    /\ run = None
    /\ cache = {}
    /\ warnings = 0

OpencodeExport ==
    /\ feature = "opencode-mcp"
    /\ stage = "canonical"
    /\ native' = OpencodeFromRulesyncMcp(IF native = None THEN [mcp |-> <<>>] ELSE native,
                                         canonical)
    /\ stage' = "exported"
    /\ UNCHANGED <<feature, canonical, reimported, failure, platform, warnings, global, run, cache>>

OpencodeImport ==
    /\ feature = "opencode-mcp"
    /\ stage = "exported"
    /\ LET r == OpencodeToRulesyncMcp(native)
       IN  IF r.ok
           THEN /\ reimported' = r.servers
                /\ stage' = "imported"
                /\ failure' = failure
           ELSE /\ reimported' = reimported
                /\ stage' = "failed"
                /\ failure' = "empty command array"
    /\ UNCHANGED <<feature, canonical, native, platform, warnings, global, run, cache>>

NextMcp == OpencodeExport \/ OpencodeImport

SpecMcp == InitMcp /\ [][NextMcp]_vars

\* ---- claims about the OpenCode MCP adapter

StdioServer(cfg) ==
    /\ Has(cfg, "type") /\ cfg.type = "stdio"
    /\ Has(cfg, "command") /\ cfg.command # ""
    /\ ~Has(cfg, "url")

ArgsOf(cfg) == IF Has(cfg, "args") THEN cfg.args ELSE <<>>

DisabledOf(cfg) == Has(cfg, "disabled") /\ cfg.disabled

C2_ToolListsRoundTrip ==
    (feature = "opencode-mcp" /\ stage = "imported") =>
        \A i \in DOMAIN canonical :
            /\ ToolSet(reimported[i].config, "enabledTools")
                 = ToolSet(canonical[i].config, "enabledTools")
            /\ ToolSet(reimported[i].config, "disabledTools")
                 = ToolSet(canonical[i].config, "disabledTools")

\* ================================================== Antigravity rule adapter

IsSpace(c) == c \in {" ", "\n"}

RECURSIVE TrimStart(_)
TrimStart(s) == IF s # <<>> /\ IsSpace(Head(s)) THEN TrimStart(Tail(s)) ELSE s

RECURSIVE TrimEnd(_)
TrimEnd(s) ==
    IF s # <<>> /\ IsSpace(s[Len(s)]) THEN TrimEnd(SubSeq(s, 1, Len(s) - 1)) ELSE s

\* String.prototype.trim
Trim(s) == TrimEnd(TrimStart(s))

\* Array.prototype.join(",")
RECURSIVE JoinComma(_)
JoinComma(list) ==
    IF list = <<>> THEN <<>>
    ELSE IF Len(list) = 1 THEN list[1]
    ELSE list[1] \o <<",">> \o JoinComma(Tail(list))

\* String.prototype.split(","): the pieces between commas, at least one
RECURSIVE SplitComma(_)
SplitComma(s) ==
    IF \E i \in DOMAIN s : s[i] = ","
    THEN LET i == CHOOSE j \in DOMAIN s : s[j] = "," /\ \A k \in 1..(j - 1) : s[k] # ","
         IN  <<SubSeq(s, 1, i - 1)>> \o SplitComma(SubSeq(s, i + 1, Len(s)))
    ELSE <<s>>

\* parseGlobsString on a string ("" stands for an absent or empty one)
parseGlobsString(globs) ==
    IF Trim(globs) = <<>> THEN <<>>
    ELSE LET pieces == SplitComma(globs)
         IN  [i \in DOMAIN pieces |-> Trim(pieces[i])]

\* stringifyGlobs: the joined string; present is FALSE when it returns undefined
stringifyGlobs(globs) ==
    IF globs = <<>> THEN [present |-> FALSE]
    ELSE [present |-> TRUE, value |-> JoinComma(globs)]

\* {...r, k: v} where v may be undefined; a key holding undefined is an absent key
Assign(r, k, v) ==
    IF v.present THEN Spread(r, (k :> v.value)) ELSE Without(r, {k})

Field(r, k) == IF Has(r, k) THEN [present |-> TRUE, value |-> r[k]] ELSE [present |-> FALSE]

\* normalizeStoredAntigravity; None stands for undefined
normalizeStoredAntigravity(stored) ==
    IF stored = None THEN None
    ELSE Assign(stored, "globs",
                IF Has(stored, "globs") THEN stringifyGlobs(stored.globs)
                ELSE [present |-> FALSE])

\* normalized?.globs ? parseGlobsString(normalized.globs) : (rulesyncFrontmatter.globs ?? [])
EffectiveGlobsArray(normalized, rulesyncFrontmatter) ==
    IF normalized # None /\ Has(normalized, "globs") /\ normalized.globs # <<>>
    THEN parseGlobsString(normalized.globs)
    ELSE IF Has(rulesyncFrontmatter, "globs") THEN rulesyncFrontmatter.globs ELSE <<>>

\* ...normalized
Stored(normalized) == IF normalized = None THEN <<>> ELSE normalized

IsWildcard(g) == g \in {<<"*", "*", "/", "*">>, <<"*">>}

STRATEGIES_UnknownFirst ==
    <<"unknown", "glob", "manual", "always_on", "model_decision", "inference">>

STRATEGIES_NoInference ==
    <<"glob", "manual", "always_on", "model_decision", "unknown">>

STRATEGIES == <<"glob", "manual", "always_on", "model_decision", "unknown", "inference">>

\* canHandle of each strategy; trigger is a [present, value] pair
canHandle(strategy, trigger) ==
    CASE strategy = "glob" -> trigger.present /\ trigger.value = "glob"
      [] strategy = "manual" -> trigger.present /\ trigger.value = "manual"
      [] strategy = "always_on" -> trigger.present /\ trigger.value = "always_on"
      [] strategy = "model_decision" -> trigger.present /\ trigger.value = "model_decision"
      [] strategy = "unknown" -> trigger.present
      [] strategy = "inference" -> ~trigger.present

\* STRATEGIES.find((s) => s.canHandle(trigger)); "none" when find returns undefined
FindStrategy(trigger) ==
    IF \E i \in DOMAIN STRATEGIES : canHandle(STRATEGIES[i], trigger)
    THEN STRATEGIES[CHOOSE i \in DOMAIN STRATEGIES :
                        /\ canHandle(STRATEGIES[i], trigger)
                        /\ \A j \in 1..(i - 1) : ~canHandle(STRATEGIES[j], trigger)]
    ELSE "none"

InferenceIgnoresWildcards(normalized, rulesyncFrontmatter) ==
    LET eff == EffectiveGlobsArray(normalized, rulesyncFrontmatter)
    IN  IF Len(eff) > 0
        THEN Assign(Spread(Stored(normalized), [trigger |-> "glob"]), "globs", stringifyGlobs(eff))
        ELSE Spread(Stored(normalized), [trigger |-> "always_on"])

\* inferenceStrategy.generateFrontmatter
InferenceFrontmatter(normalized, rulesyncFrontmatter) ==
    LET eff == EffectiveGlobsArray(normalized, rulesyncFrontmatter)
    IN  IF Len(eff) > 0 /\ \A i \in DOMAIN eff : ~IsWildcard(eff[i])
        THEN Assign(Spread(Stored(normalized), [trigger |-> "glob"]), "globs", stringifyGlobs(eff))
        ELSE Spread(Stored(normalized), [trigger |-> "always_on"])

\* generateFrontmatter of each strategy
generateFrontmatter(strategy, normalized, rulesyncFrontmatter) ==
    CASE strategy = "glob" ->
            Assign(Spread(Stored(normalized), [trigger |-> "glob"]), "globs",
                   stringifyGlobs(EffectiveGlobsArray(normalized, rulesyncFrontmatter)))
      [] strategy = "manual" -> Spread(Stored(normalized), [trigger |-> "manual"])
      [] strategy = "always_on" -> Spread(Stored(normalized), [trigger |-> "always_on"])
      [] strategy = "model_decision" ->
            Assign(Spread(Stored(normalized), [trigger |-> "model_decision"]), "description",
                   Field(rulesyncFrontmatter, "description"))
      [] strategy = "unknown" ->
            Spread(Stored(normalized),
                   [trigger |-> IF normalized # None /\ Has(normalized, "trigger")
                                THEN normalized.trigger ELSE "manual"])
      [] strategy = "inference" -> InferenceFrontmatter(normalized, rulesyncFrontmatter)

GlobsOrAll(frontmatter) ==
    IF Has(frontmatter, "globs") /\ frontmatter.globs # <<>>
    THEN parseGlobsString(frontmatter.globs) ELSE <<<<"*", "*", "/", "*">>>>

\* exportRulesyncData of each strategy
exportRulesyncData(strategy, frontmatter) ==
    [globs |-> CASE strategy = "glob" ->
                      parseGlobsString(IF Has(frontmatter, "globs") THEN frontmatter.globs ELSE <<>>)
                 [] strategy \in {"manual", "model_decision"} -> <<>>
                 [] strategy = "always_on" -> <<<<"*", "*", "/", "*">>>>
                 [] strategy \in {"unknown", "inference"} -> GlobsOrAll(frontmatter),
     description |-> IF Has(frontmatter, "description") THEN frontmatter.description ELSE "",
     antigravity |-> Without(frontmatter, {"description"})]

\* AntigravityRule.fromRulesyncRule, lines 567-596; dispatched records which
\* strategy STRATEGIES.find returned.  The output file name comes from
\* toKebabCaseFilename and is not part of the record modelled here.
AntigravityFromRulesyncRule(rule) ==
    LET rulesyncFrontmatter == rule.frontmatter
        storedAntigravity ==
            IF Has(rulesyncFrontmatter, "antigravity") THEN rulesyncFrontmatter.antigravity
            ELSE None
        normalized == normalizeStoredAntigravity(storedAntigravity)
        storedTrigger ==
            IF storedAntigravity = None THEN [present |-> FALSE]
            ELSE Field(storedAntigravity, "trigger")
        strategy == FindStrategy(storedTrigger)
    IN  IF strategy = "none"
        THEN [ok |-> FALSE]
        ELSE [ok |-> TRUE,
              rule |-> [frontmatter |-> generateFrontmatter(strategy, normalized,
                                                            rulesyncFrontmatter),
                        body |-> rule.body,
                        dispatched |-> strategy]]

\* AntigravityRule.toRulesyncRule, lines 610-652
AntigravityToRulesyncRule(toolRule) ==
    LET fm == toolRule.frontmatter
        strategy == FindStrategy(Field(fm, "trigger"))
        rulesyncData ==
            IF strategy = "none"
            THEN [globs |-> <<>>, description |-> "", antigravity |-> fm]
            ELSE exportRulesyncData(strategy, fm)
        antigravityForRulesync ==
            Assign(rulesyncData.antigravity, "globs",
                   IF Has(fm, "globs") /\ fm.globs # <<>>
                   THEN [present |-> TRUE, value |-> parseGlobsString(fm.globs)]
                   ELSE [present |-> FALSE])
    IN  [frontmatter |-> [root |-> FALSE,
                          targets |-> <<"*">>,
                          globs |-> rulesyncData.globs,
                          description |-> rulesyncData.description,
                          antigravity |-> antigravityForRulesync],
         body |-> toolRule.body]

\* ---- canonical rule inputs

GlobSrc == <<"a">>
GlobAll == <<"*", "*", "/", "*">>
GlobStar == <<"*">>
GlobPadded == <<" ", "*">>
GlobList == <<"a", ",", "*">>
GlobEmpty == <<>>
GlobBlank == <<" ">>

CanonicalGlobLists == SeqsUpTo({GlobSrc, GlobAll, GlobStar}, MaxGlobs)

AntigravityGlobLists ==
    {<<>>, <<GlobSrc>>, <<GlobAll>>, <<GlobPadded>>, <<GlobList>>, <<GlobEmpty>>, <<GlobBlank>>,
     <<GlobSrc, GlobSrc>>, <<GlobSrc, GlobPadded>>, <<GlobSrc, GlobStar>>}

Triggers == {"glob", "manual", "always_on", "model_decision", "custom", ""}

AntigravitySections ==
    {Spread(Spread(t, g), d) :
        t \in OptionalField("trigger", Triggers),
        g \in OptionalField("globs", AntigravityGlobLists),
        d \in OptionalField("description", {"ad"})}

RuleInputs ==
    {[frontmatter |-> Spread(Spread(Spread([targets |-> <<"*">>], d), g), a), body |-> b] :
        d \in OptionalField("description", {"d"}),
        g \in OptionalField("globs", CanonicalGlobLists),
        a \in OptionalField("antigravity", AntigravitySections),
        b \in {"", "body"}}

InitRule ==
    /\ feature = "antigravity-rule"
    /\ stage = "canonical"
    /\ canonical \in RuleInputs
    /\ native = None
    /\ reimported = None
    /\ failure = ""
    /\ platform = "linux"
    /\ global = FALSE
    /\ run = None
    /\ cache = {}
    /\ warnings = 0

AntigravityRuleExport ==
    /\ feature = "antigravity-rule"
    /\ stage = "canonical"
    /\ LET r == AntigravityFromRulesyncRule(canonical)
       IN  IF r.ok
           THEN /\ native' = r.rule
                /\ stage' = "exported"
                /\ failure' = failure
           ELSE /\ native' = native
                /\ stage' = "failed"
                /\ failure' = "No strategy found for trigger"
    /\ UNCHANGED <<feature, canonical, reimported, platform, warnings, global, run, cache>>

AntigravityRuleImport ==
    /\ feature = "antigravity-rule"
    /\ stage = "exported"
    /\ reimported' = AntigravityToRulesyncRule(native)
    /\ stage' = "imported"
    /\ UNCHANGED <<feature, canonical, native, failure, platform, warnings, global, run, cache>>

NextRule == AntigravityRuleExport \/ AntigravityRuleImport

SpecRule == InitRule /\ [][NextRule]_vars

\* ---- claims about the Antigravity rule adapter

RuleRan == feature = "antigravity-rule" /\ stage \in {"exported", "imported"}

StoredTrigger ==
    IF Has(canonical.frontmatter, "antigravity")
    THEN Field(canonical.frontmatter.antigravity, "trigger")
    ELSE [present |-> FALSE]

CanonicalGlobs(fm) == IF Has(fm, "globs") THEN fm.globs ELSE <<>>

\* C3: the dispatch on the stored trigger is first-match-wins in the order
\* glob, manual, always_on, model_decision, any other string, undefined; a
\* strategy is always found; a stored string trigger is emitted unchanged; the
\* inference strategy runs only when the stored trigger is undefined.
C3_TriggerDispatch ==
    feature = "antigravity-rule" =>
        /\ stage # "failed"
        /\ RuleRan =>
             /\ StoredTrigger.present => native.frontmatter.trigger = StoredTrigger.value
             /\ native.dispatched =
                  IF ~StoredTrigger.present THEN "inference"
                  ELSE IF StoredTrigger.value \in {"glob", "manual", "always_on", "model_decision"}
                       THEN StoredTrigger.value
                       ELSE "unknown"

C3_Witness ==
    /\ RuleRan
    /\ StoredTrigger.present /\ StoredTrigger.value = "glob"
    /\ ~Has(canonical.frontmatter.antigravity, "globs")
    /\ CanonicalGlobs(canonical.frontmatter) = <<GlobSrc>>
    /\ native.dispatched = "glob"
    /\ native.frontmatter.trigger = "glob"
    /\ native.frontmatter.globs = GlobSrc

HasWildcard(globs) == \E i \in DOMAIN globs : globs[i] \in {GlobAll, GlobStar}

\* the claim's effective globs: antigravity.globs when set, otherwise the canonical globs
EffectiveGlobsAsClaimed ==
    IF Has(canonical.frontmatter, "antigravity") /\ Has(canonical.frontmatter.antigravity, "globs")
    THEN canonical.frontmatter.antigravity.globs
    ELSE CanonicalGlobs(canonical.frontmatter)

\* C4 as stated: with no stored trigger the output is trigger "glob" with the
\* effective globs joined by commas iff the effective globs (antigravity.globs
\* when set, otherwise the canonical globs) are non-empty and hold no "**/*"
\* and no "*"; otherwise the output trigger is "always_on".
C4_InferenceAsStated ==
    (RuleRan /\ ~StoredTrigger.present) =>
        IF EffectiveGlobsAsClaimed # <<>> /\ ~HasWildcard(EffectiveGlobsAsClaimed)
        THEN /\ native.frontmatter.trigger = "glob"
             /\ Has(native.frontmatter, "globs")
             /\ native.frontmatter.globs = JoinComma(EffectiveGlobsAsClaimed)
        ELSE native.frontmatter.trigger = "always_on"

\* the effective globs as amended: the comma-separated pieces, each trimmed, of
\* antigravity.globs joined by commas when that string is not empty (no piece
\* at all when it is blank), otherwise the canonical globs
EffectiveGlobsAmended ==
    LET fm == canonical.frontmatter
        joined == IF Has(fm, "antigravity") /\ Has(fm.antigravity, "globs")
                  THEN JoinComma(fm.antigravity.globs) ELSE <<>>
        pieces == SplitComma(joined)
    IN  IF joined = <<>> THEN CanonicalGlobs(fm)
        ELSE IF Trim(joined) = <<>> THEN <<>>
        ELSE [i \in DOMAIN pieces |-> Trim(pieces[i])]

\* C4 as amended: the same rule over the effective globs as amended.
C4_InferenceFromGlobs ==
    (RuleRan /\ ~StoredTrigger.present) =>
        IF EffectiveGlobsAmended # <<>> /\ ~HasWildcard(EffectiveGlobsAmended)
        THEN /\ native.frontmatter.trigger = "glob"
             /\ Has(native.frontmatter, "globs")
             /\ native.frontmatter.globs = JoinComma(EffectiveGlobsAmended)
        ELSE native.frontmatter.trigger = "always_on"

C4_Witness ==
    /\ RuleRan /\ ~StoredTrigger.present
    /\ Has(canonical.frontmatter, "antigravity")
    /\ Has(canonical.frontmatter.antigravity, "globs")
    /\ canonical.frontmatter.antigravity.globs = <<GlobSrc, GlobPadded>>
    /\ CanonicalGlobs(canonical.frontmatter) = <<GlobSrc, GlobSrc>>
    /\ native.frontmatter.trigger = "always_on"

Lower == {"a", "b", "c", "d", "e", "f", "g", "h", "i", "j", "k", "l", "m",
          "n", "o", "p", "q", "r", "s", "t", "u", "v", "w", "x", "y", "z"}
Upper == {"A", "B", "C", "D", "E", "F", "G", "H", "I", "J", "K", "L", "M",
          "N", "O", "P", "Q", "R", "S", "T", "U", "V", "W", "X", "Y", "Z"}
Digits == {"0", "1", "2", "3", "4", "5", "6", "7", "8", "9"}

\* \w
WordChars == Lower \cup Upper \cup Digits \cup {"_"}

\* [a-zA-Z0-9-_]
SlugChars == Lower \cup Upper \cup Digits \cup {"-", "_"}

EndsWith(s, suffix) ==
    Len(s) >= Len(suffix) /\ SubSeq(s, Len(s) - Len(suffix) + 1, Len(s)) = suffix

\* the position of the first occurrence of pat in s at or after from; 0 when none
IndexOf(s, pat, from) ==
    LET hits == {i \in from..(Len(s) - Len(pat) + 1) : SubSeq(s, i, i + Len(pat) - 1) = pat}
    IN  IF hits = {} THEN 0 ELSE CHOOSE i \in hits : \A j \in hits : i <= j

RECURSIVE StripLeading(_, _)
StripLeading(s, c) == IF s # <<>> /\ Head(s) = c THEN StripLeading(Tail(s), c) ELSE s

RECURSIVE StripTrailing(_, _)
StripTrailing(s, c) ==
    IF s # <<>> /\ s[Len(s)] = c THEN StripTrailing(SubSeq(s, 1, Len(s) - 1), c) ELSE s

\* node:path basename(path, ext)
Basename(path, ext) ==
    IF path = ext THEN <<>>
    ELSE LET p == StripTrailing(path, "/")
             slashes == {i \in DOMAIN p : p[i] = "/"}
             last == IF slashes = {} THEN 0 ELSE CHOOSE i \in slashes : \A j \in slashes : j <= i
             name == SubSeq(p, last + 1, Len(p))
         IN  IF EndsWith(name, ext) /\ name # ext
             THEN SubSeq(name, 1, Len(name) - Len(ext))
             ELSE name

DotMd == <<".", "m", "d">>

TriggerColon == <<"t", "r", "i", "g", "g", "e", "r", ":">>

\* the end of the longest run of characters of set that starts at position from
RECURSIVE RunEnd(_, _, _)
RunEnd(s, from, set) ==
    IF from <= Len(s) /\ s[from] \in set THEN RunEnd(s, from + 1, set) ELSE from - 1

\* whether /trigger:\s*(\/[\w-]+)/ matches at position i
TriggerMatchesAt(body, i) ==
    /\ i + Len(TriggerColon) - 1 <= Len(body)
    /\ SubSeq(body, i, i + Len(TriggerColon) - 1) = TriggerColon
    /\ LET slash == RunEnd(body, i + Len(TriggerColon), {" ", "\n"}) + 1
       IN  /\ slash + 1 <= Len(body)
           /\ body[slash] = "/"
           /\ body[slash + 1] \in WordChars \cup {"-"}

\* rulesyncCommand.getBody().match(/trigger:\s*(\/[\w-]+)/): group 1 of the
\* leftmost match, <<>> when there is no match
BodyTriggerMatch(body) ==
    LET hits == {i \in DOMAIN body : TriggerMatchesAt(body, i)}
    IN  IF hits = {} THEN <<>>
        ELSE LET i == CHOOSE k \in hits : \A j \in hits : k <= j
                 slash == RunEnd(body, i + Len(TriggerColon), {" ", "\n"}) + 1
             IN  SubSeq(body, slash, RunEnd(body, slash + 1, WordChars \cup {"-"}))

NonEmptyString(r, k) == Has(r, k) /\ r[k] # <<>>

resolveTriggerRootFirst(rulesyncCommand) ==
    LET fm == rulesyncCommand.frontmatter
        bodyTrigger == BodyTriggerMatch(rulesyncCommand.body)
    IN  IF NonEmptyString(fm, "trigger") THEN fm.trigger
        ELSE IF Has(fm, "antigravity") /\ NonEmptyString(fm.antigravity, "trigger")
             THEN fm.antigravity.trigger
        ELSE IF bodyTrigger # <<>> THEN bodyTrigger
        ELSE <<"/">> \o Basename(rulesyncCommand.relativeFilePath, DotMd)

\* AntigravityCommand.resolveTrigger: a || b || c || d over the four sources
resolveTrigger(rulesyncCommand) ==
    LET fm == rulesyncCommand.frontmatter
        bodyTrigger == BodyTriggerMatch(rulesyncCommand.body)
    IN  IF Has(fm, "antigravity") /\ NonEmptyString(fm.antigravity, "trigger")
        THEN fm.antigravity.trigger
        ELSE IF NonEmptyString(fm, "trigger") THEN fm.trigger
        ELSE IF bodyTrigger # <<>> THEN bodyTrigger
        ELSE <<"/">> \o Basename(rulesyncCommand.relativeFilePath, DotMd)

SanitizeKeepsHyphenEnds(trigger) ==
    [i \in DOMAIN trigger |-> IF trigger[i] \in SlugChars THEN trigger[i] ELSE "-"]

\* trigger.replace(/[^a-zA-Z0-9-_]/g, "-").replace(/^-+|-+$/g, "")
SanitizeTrigger(trigger) ==
    StripTrailing(StripLeading(
        [i \in DOMAIN trigger |-> IF trigger[i] \in SlugChars THEN trigger[i] ELSE "-"],
        "-"), "-")

FrontmatterOpen == <<"-", "-", "-", "\n">>
FrontmatterClose == <<"\n", "-", "-", "-", "\n">>

\* body.replace(/^---\r?\n[\s\S]*?\r?\n---\r?\n/, "") on text without "\r"
StripEmbeddedFrontmatter(body) ==
    LET close == IF StartsWith(body, FrontmatterOpen)
                 THEN IndexOf(body, FrontmatterClose, Len(FrontmatterOpen) + 1) ELSE 0
    IN  IF close = 0 THEN body
        ELSE SubSeq(body, close + Len(FrontmatterClose), Len(body))

WorkflowHeader == <<"#", " ", "W", "o", "r", "k", "f", "l", "o", "w", ":", " ">>
TurboDirective == <<"\n", "\n", "/", "/", " ", "t", "u", "r", "b", "o">>

\* AntigravityCommand.fromRulesyncCommand, lines 116-178
AntigravityFromRulesyncCommand(rulesyncCommand) ==
    LET fm == rulesyncCommand.frontmatter
        trigger == resolveTrigger(rulesyncCommand)
        turbo == IF Has(fm, "antigravity") /\ Has(fm.antigravity, "turbo")
                 THEN fm.antigravity.turbo ELSE TRUE
        cleaned == Trim(StripEmbeddedFrontmatter(rulesyncCommand.body))
        sanitizedTrigger == SanitizeTrigger(trigger)
    IN  IF sanitizedTrigger = <<>>
        THEN [ok |-> FALSE]
        ELSE [ok |-> TRUE,
              command |->
                [frontmatter |-> [description |-> fm.description,
                                  trigger |-> trigger,
                                  turbo |-> turbo],
                 body |-> WorkflowHeader \o trigger \o <<"\n", "\n">> \o cleaned
                          \o (IF turbo THEN TurboDirective ELSE <<>>),
                 relativeFilePath |-> sanitizedTrigger \o DotMd]]

\* AntigravityCommand.toRulesyncCommand, lines 85-107
AntigravityToRulesyncCommand(toolCommand) ==
    LET restFields == Without(toolCommand.frontmatter, {"description"})
    IN  [frontmatter |-> Spread([targets |-> <<"antigravity">>,
                                 description |-> toolCommand.frontmatter.description],
                                Opt(DOMAIN restFields # {}, "antigravity", restFields)),
         body |-> toolCommand.body,
         relativeFilePath |-> toolCommand.relativeFilePath]

\* ---- canonical commands the adapter is run on; text is a sequence of characters

TriggerGo == <<"/", "g", "o">>
TriggerTraversal == <<"/", ".", ".", "/", "x">>
TriggerBody == <<"/", "b", "-", "t">>
TriggerRoot == <<"/", "r", "o", "o", "t">>

CommandTriggers ==
    {<<>>,
     TriggerGo,
     TriggerTraversal,
     <<"/", "/">>,
     <<"g", "o", "!">>}

RootTriggers == {<<>>, TriggerRoot}

BodyPlain == <<"x">>
BodyWithFrontmatter == <<"-", "-", "-", "\n", "a", "\n", "-", "-", "-", "\n", "x">>

CommandBodies ==
    {<<>>, BodyPlain, BodyWithFrontmatter,
     <<"t", "r", "i", "g", "g", "e", "r", ":", " ", "/", "b", "-", "t", " ", "x">>,
     <<"t", "r", "i", "g", "g", "e", "r", ":", "/", "b">>,
     <<"t", "r", "i", "g", "g", "e", "r", ":", " ", "b">>,
     <<"t", "r", "i", "g", "g", "e", "r", ":", "x", " ", "t", "r", "i", "g", "g", "e", "r", ":", " ", "/", "c">>,
     <<" ", "x", "\n">>}

CommandFiles ==
    {<<"c", "m", "d", ".", "m", "d">>,
     <<"s", "u", "b", "/", "c", ".", "m", "d">>,
     <<".", "m", "d">>,
     <<"a", " ", "b", ".", "t", "x", "t">>}

AntigravityCommandSections ==
    {Spread(t, u) : t \in OptionalField("trigger", CommandTriggers),
                    u \in OptionalField("turbo", {FALSE})}

CommandFrontmatters ==
    {Spread(Spread([targets |-> tg, description |-> d], rt), ag) :
        tg \in {<<"*">>, <<"antigravity">>},
        d \in {"d", ""},
        rt \in OptionalField("trigger", RootTriggers),
        ag \in OptionalField("antigravity", AntigravityCommandSections)}

CommandInputs ==
    [frontmatter : CommandFrontmatters, body : CommandBodies, relativeFilePath : CommandFiles]

InitCommand ==
    /\ feature = "antigravity-command"
    /\ stage = "canonical"
    /\ canonical \in CommandInputs
    /\ native = None
    /\ reimported = None
    /\ failure = ""
    /\ platform = "linux"
    /\ global = FALSE
    /\ run = None
    /\ cache = {}
    /\ warnings = 0

AntigravityCommandExport ==
    /\ feature = "antigravity-command"
    /\ stage = "canonical"
    /\ LET r == AntigravityFromRulesyncCommand(canonical)
       IN  IF r.ok
           THEN /\ native' = r.command
                /\ stage' = "exported"
                /\ failure' = failure
           ELSE /\ native' = native
                /\ stage' = "failed"
                /\ failure' = "Invalid trigger: sanitization resulted in empty string"
    /\ UNCHANGED <<feature, canonical, reimported, platform, warnings, global, run, cache>>

AntigravityCommandImport ==
    /\ feature = "antigravity-command"
    /\ stage = "exported"
    /\ reimported' = AntigravityToRulesyncCommand(native)
    /\ stage' = "imported"
    /\ UNCHANGED <<feature, canonical, native, failure, platform, warnings, global, run, cache>>

NextCommand == AntigravityCommandExport \/ AntigravityCommandImport

SpecCommand == InitCommand /\ [][NextCommand]_vars

\* ---- claims about the Antigravity command adapter

CommandRan == feature = "antigravity-command" /\ stage \in {"exported", "imported"}

\* the four trigger sources in priority order, <<>> standing for an absent one
TriggerSources(cmd) ==
    LET fm == cmd.frontmatter
    IN  << IF Has(fm, "antigravity") /\ Has(fm.antigravity, "trigger")
           THEN fm.antigravity.trigger ELSE <<>>,
           IF Has(fm, "trigger") THEN fm.trigger ELSE <<>>,
           BodyTriggerMatch(cmd.body),
           <<"/">> \o Basename(cmd.relativeFilePath, DotMd) >>

\* C6: the exported trigger is the first of the antigravity section's trigger,
\* the root-level trigger, the first "trigger: /name" match in the body and "/"
\* plus the file name without .md that is present and not the empty string; a
\* source is used only when every source before it is absent or empty, and the
\* trigger is never empty.
C6_TriggerPriority ==
    CommandRan =>
        LET sources == TriggerSources(canonical)
            trigger == native.frontmatter.trigger
        IN  /\ trigger # <<>>
            /\ \E k \in DOMAIN sources :
                 /\ trigger = sources[k]
                 /\ \A j \in 1..(k - 1) : sources[j] = <<>>

C6_Witness ==
    /\ CommandRan
    /\ Has(canonical.frontmatter, "antigravity")
    /\ Has(canonical.frontmatter.antigravity, "trigger")
    /\ canonical.frontmatter.antigravity.trigger = <<>>
    /\ Has(canonical.frontmatter, "trigger")
    /\ canonical.frontmatter.trigger = <<>>
    /\ BodyTriggerMatch(canonical.body) = TriggerBody
    /\ native.frontmatter.trigger = TriggerBody

Contains(s, pat) == IndexOf(s, pat, 1) # 0

\* C7: the export fails, producing no record, exactly when the resolved
\* trigger has no letter, digit or underscore (nothing is left once the other
\* characters are replaced by hyphens and the hyphens at both ends are
\* stripped); otherwise the record's relativeFilePath is "<slug>.md" with a
\* non-empty slug of letters, digits, "-" and "_" that neither starts nor ends
\* with "-", so the file name has no path separator and no "..".
C7_SanitizedFileName ==
    (feature = "antigravity-command" /\ stage # "canonical") =>
        LET sources == TriggerSources(canonical)
            trigger == sources[CHOOSE k \in DOMAIN sources :
                                 sources[k] # <<>> /\ \A j \in 1..(k - 1) : sources[j] = <<>>]
            leavesEmpty == \A i \in DOMAIN trigger : trigger[i] \notin WordChars
        IN  /\ (stage = "failed") <=> leavesEmpty
            /\ stage = "failed" =>
                 /\ native = None
                 /\ failure = "Invalid trigger: sanitization resulted in empty string"
            /\ stage # "failed" =>
                 LET file == native.relativeFilePath
                     slug == SubSeq(file, 1, Len(file) - Len(DotMd))
                 IN  /\ EndsWith(file, DotMd)
                     /\ slug # <<>>
                     /\ \A i \in DOMAIN slug : slug[i] \in SlugChars
                     /\ slug[1] # "-"
                     /\ slug[Len(slug)] # "-"
                     /\ ~Contains(file, <<"/">>)
                     /\ ~Contains(file, <<".", ".">>)

C7_Witness ==
    /\ CommandRan
    /\ native.frontmatter.trigger = TriggerTraversal
    /\ native.relativeFilePath = <<"x", ".", "m", "d">>

\* C8: after export and import the canonical command has the description and
\* the body it started with.
C8_CommandRoundTrip ==
    (feature = "antigravity-command" /\ stage = "imported") =>
        /\ reimported.frontmatter.description = canonical.frontmatter.description
        /\ reimported.body = canonical.body

\* ===================================================== Copilot hooks adapter

\* the Copilot column of the supported-events table
COPILOT_HOOK_EVENTS ==
    {"sessionStart", "sessionEnd", "preToolUse", "postToolUse", "afterSubmitPrompt", "afterError"}

\* CANONICAL_TO_COPILOT_EVENT_NAMES[eventName] ?? eventName
CopilotEventName(eventName) ==
    IF eventName = "afterSubmitPrompt" THEN "userPromptSubmitted"
    ELSE IF eventName = "afterError" THEN "errorOccurred"
    ELSE eventName

\* Object.keys(HookDefinitionSchema.shape)
CanonicalSchemaKeys == {"type", "command", "prompt", "timeout", "matcher", "loop_limit"}

CommandFieldAlwaysBash(os) == "bash"

\* process.platform === "win32" ? "powershell" : "bash"
CommandField(os) == IF os = "win32" THEN "powershell" ELSE "bash"

MapKeys(map) == {map[i].key : i \in DOMAIN map}

MapGet(map, k) == map[CHOOSE i \in DOMAIN map : map[i].key = k].value

RECURSIVE SpreadMapsConcatenating(_, _)
SpreadMapsConcatenating(a, b) ==
    IF b = <<>> THEN a
    ELSE SpreadMapsConcatenating(
             SetKey(a, Head(b).key,
                    (IF Head(b).key \in {a[i].key : i \in DOMAIN a}
                     THEN a[CHOOSE i \in DOMAIN a : a[i].key = Head(b).key].value
                     ELSE <<>>) \o Head(b).value),
             Tail(b))

\* { ...a, ...b } on insertion-ordered maps
RECURSIVE SpreadMaps(_, _)
SpreadMaps(a, b) ==
    IF b = <<>> THEN a ELSE SpreadMaps(SetKey(a, Head(b).key, Head(b).value), Tail(b))

SupportsEveryEvent(event) == TRUE

\* supported.has(event)
SupportedByCopilot(event) == event \in COPILOT_HOOK_EVENTS

\* lines 53-58: the shared hooks of the events Copilot supports
RECURSIVE SharedConfigHooks(_)
SharedConfigHooks(hooks) ==
    IF hooks = <<>> THEN <<>>
    ELSE IF SupportedByCopilot(Head(hooks).key)
         THEN <<Head(hooks)>> \o SharedConfigHooks(Tail(hooks))
         ELSE SharedConfigHooks(Tail(hooks))

CopilotOverrideHooks(config) ==
    IF Has(config, "copilot") /\ Has(config.copilot, "hooks") THEN config.copilot.hooks ELSE <<>>

\* lines 59-62
EffectiveHooks(config) == SpreadMaps(SharedConfigHooks(config.hooks), CopilotOverrideHooks(config))

HookType(def) == IF Has(def, "type") THEN def.type ELSE "command"

KeepsEveryDefinition(def) == TRUE

\* lines 70-72: neither `if (def.matcher) continue` nor
\* `if (hookType !== "command") continue` skips the definition
KeepsDefinition(def) == ~Truthy(def, "matcher") /\ HookType(def) = "command"

\* lines 74-86
ToCopilotEntry(def, os) ==
    Spread(Spread(Spread([type |-> HookType(def)],
                         Copy(def, "command", CommandField(os))),
                  Copy(def, "timeout", "timeoutSec")),
           Without(def, CanonicalSchemaKeys))

\* lines 66-87
RECURSIVE CopilotEntries(_, _)
CopilotEntries(definitions, os) ==
    IF definitions = <<>> THEN <<>>
    ELSE IF KeepsDefinition(Head(definitions))
         THEN <<ToCopilotEntry(Head(definitions), os)>> \o CopilotEntries(Tail(definitions), os)
         ELSE CopilotEntries(Tail(definitions), os)

\* entries.length > 0
EmitsEvent(entries) == entries # <<>>

\* lines 63-93
RECURSIVE ConvertEvents(_, _, _)
ConvertEvents(copilot, effectiveHooks, os) ==
    IF effectiveHooks = <<>> THEN copilot
    ELSE LET entries == CopilotEntries(Head(effectiveHooks).value, os)
             copilotEventName == CopilotEventName(Head(effectiveHooks).key)
         IN  ConvertEvents(IF EmitsEvent(entries)
                           THEN SetKey(copilot, copilotEventName, entries)
                           ELSE copilot,
                           Tail(effectiveHooks), os)

canonicalToCopilotHooks(config, os) == ConvertEvents(<<>>, EffectiveHooks(config), os)

\* CopilotHooks.fromRulesyncHooks: the JSON written to copilot-hooks.json
CopilotFromRulesyncHooks(config, os) ==
    [version |-> 1, hooks |-> canonicalToCopilotHooks(config, os)]

\* ---- canonical hook configurations the adapter is run on

MaxEvents == 2   \* most events in the shared hooks map

HookPlain == [command |-> "a.sh"]
HookTimed == [type |-> "command", command |-> "b.sh", timeout |-> 10, loop_limit |-> 5,
              customKey |-> 123]
HookMatcher == [type |-> "command", command |-> "c.sh", matcher |-> "Write"]
HookPrompt == [type |-> "prompt", prompt |-> "review", command |-> "p.sh"]
HookEmptyMatcher == [command |-> "e.sh", matcher |-> ""]
HookNative == [type |-> "command", bash |-> "run.sh", powershell |-> "run.ps1"]

HookLists ==
    {<<>>,
     <<HookPlain>>,
     <<HookMatcher, HookPrompt>>,
     <<HookTimed, HookMatcher, HookPlain>>,
     <<HookPrompt, HookEmptyMatcher>>,
     <<HookNative>>}

OverrideHookLists == {<<HookPlain>>, <<HookMatcher>>, <<HookNative, HookPrompt, HookTimed>>}

SharedEvents == {"sessionStart", "afterSubmitPrompt", "afterError", "stop"}
OverrideEvents == {"sessionStart", "errorOccurred", "stop"}

\* maps of at most n events, each event at most once
HookMaps(events, lists, n) ==
    UNION {{m \in [1..k -> [key : events, value : lists]] :
              \A i, j \in 1..k : m[i].key = m[j].key => i = j} : k \in 0..n}

CopilotSections ==
    {<<>>, [copilot |-> <<>>]}
      \cup {[copilot |-> [hooks |-> m]] : m \in HookMaps(OverrideEvents, OverrideHookLists, 1)}

HookConfigs ==
    {Spread([version |-> 1, hooks |-> m], c) :
        m \in HookMaps(SharedEvents, HookLists, MaxEvents), c \in CopilotSections}

\* ---- import of a copilot-hooks.json file

\* parsed JSON whose type the code inspects. A scalar is tagged with its type
\* and carries its payload in the field of that type; an entry of an event's
\* array is tagged and carries its fields in f; the value of an event and the
\* hooks member are tagged and carry their elements in v.
JString(x) == [t |-> "string", s |-> x, n |-> 0]
JNumber(x) == [t |-> "number", s |-> "", n |-> x]
JBoolean(x) == [t |-> "boolean", s |-> "", n |-> IF x THEN 1 ELSE 0]
JEntry(fields) == [t |-> "object", f |-> fields]
JNotAnObject(text) == [t |-> "string", f |-> [text |-> JString(text)]]
JObject(x) == [t |-> "object", v |-> x]
JArray(x) == [t |-> "array", v |-> x]
JNeither == [t |-> "string", v |-> <<>>]

IsJString(r, k) == Has(r, k) /\ r[k].t = "string"

\* CopilotHookEntrySchema.safeParse(rawEntry).success
ParsesAsEntry(rawEntry) ==
    /\ rawEntry.t = "object"
    /\ IsJString(rawEntry.f, "type")
    /\ Has(rawEntry.f, "bash") => rawEntry.f.bash.t = "string"
    /\ Has(rawEntry.f, "powershell") => rawEntry.f.powershell.t = "string"
    /\ Has(rawEntry.f, "timeoutSec") => rawEntry.f.timeoutSec.t = "number"

\* the branch of resolveImportCommand that logs the warning
WarnsAboutIgnored(entry) == IsJString(entry, "bash") /\ IsJString(entry, "powershell")

resolveImportCommandPrefersBash(entry, os) ==
    IF IsJString(entry, "bash") THEN [present |-> TRUE, value |-> entry.bash.s]
    ELSE IF IsJString(entry, "powershell") THEN [present |-> TRUE, value |-> entry.powershell.s]
    ELSE [present |-> FALSE]

\* resolveImportCommand, lines 104-121
resolveImportCommand(entry, os) ==
    IF IsJString(entry, "bash") /\ IsJString(entry, "powershell")
    THEN [present |-> TRUE,
          value |-> IF os = "win32" THEN entry.powershell.s ELSE entry.bash.s]
    ELSE IF IsJString(entry, "bash") THEN [present |-> TRUE, value |-> entry.bash.s]
    ELSE IF IsJString(entry, "powershell") THEN [present |-> TRUE, value |-> entry.powershell.s]
    ELSE [present |-> FALSE]

\* lines 141-148
ImportedDefinition(entry, os) ==
    LET command == resolveImportCommand(entry, os)
    IN  Spread(Spread([type |-> "command"],
                      IF command.present THEN [command |-> command.value] ELSE <<>>),
               IF Has(entry, "timeoutSec") THEN [timeout |-> entry.timeoutSec.n] ELSE <<>>)

\* lines 136-149
RECURSIVE ImportedDefinitions(_, _)
ImportedDefinitions(hookEntries, os) ==
    IF hookEntries = <<>> THEN <<>>
    ELSE IF ParsesAsEntry(Head(hookEntries))
         THEN <<ImportedDefinition(Head(hookEntries).f, os)>>
                \o ImportedDefinitions(Tail(hookEntries), os)
         ELSE ImportedDefinitions(Tail(hookEntries), os)

RECURSIVE WarningsOfEntries(_)
WarningsOfEntries(hookEntries) ==
    IF hookEntries = <<>> THEN 0
    ELSE (IF ParsesAsEntry(Head(hookEntries)) /\ WarnsAboutIgnored(Head(hookEntries).f)
          THEN 1 ELSE 0) + WarningsOfEntries(Tail(hookEntries))

\* COPILOT_TO_CANONICAL_EVENT_NAMES[copilotEventName] ?? copilotEventName
CanonicalEventName(copilotEventName) ==
    IF copilotEventName = "userPromptSubmitted" THEN "afterSubmitPrompt"
    ELSE IF copilotEventName = "errorOccurred" THEN "afterError"
    ELSE copilotEventName

\* lines 132-154 over the entries of the hooks object
RECURSIVE ImportEvents(_, _, _)
ImportEvents(result, events, os) ==
    IF events = <<>> THEN result
    ELSE LET hookEntries == Head(events).value
             defs == IF hookEntries.t = "array"
                     THEN ImportedDefinitions(hookEntries.v, os) ELSE <<>>
         IN  ImportEvents([hooks |-> IF defs # <<>>
                                     THEN SetKey(result.hooks,
                                                 CanonicalEventName(Head(events).key), defs)
                                     ELSE result.hooks,
                           warnings |-> result.warnings
                                          + (IF hookEntries.t = "array"
                                             THEN WarningsOfEntries(hookEntries.v) ELSE 0)],
                          Tail(events), os)

\* copilotHooksToCanonical(parsed.hooks), with the number of warnings it logs
copilotHooksToCanonical(parsed, os) ==
    IF ~Has(parsed, "hooks") \/ parsed.hooks.t # "object"
    THEN [hooks |-> <<>>, warnings |-> 0]
    ELSE ImportEvents([hooks |-> <<>>, warnings |-> 0], parsed.hooks.v, os)

\* the file content JSON.parse rejects
InvalidJson == [invalid |-> TRUE]

\* CopilotHooks.toRulesyncHooks
CopilotToRulesyncHooks(fileContent, os) ==
    IF fileContent = InvalidJson
    THEN [ok |-> FALSE]
    ELSE LET converted == copilotHooksToCanonical(fileContent, os)
         IN  [ok |-> TRUE,
              json |-> [version |-> 1, hooks |-> converted.hooks],
              warnings |-> converted.warnings]

\* ---- copilot-hooks.json files the import is run on

EntryBash == JEntry([type |-> JString("command"), bash |-> JString("valid.sh")])
EntryPowershell ==
    JEntry([type |-> JString("command"), powershell |-> JString("run.ps1"),
             timeoutSec |-> JNumber(30)])
EntryBoth ==
    JEntry([type |-> JString("command"), bash |-> JString("both.sh"),
             powershell |-> JString("both.ps1"), customKey |-> JNumber(123)])
EntryNeither == JEntry([type |-> JString("command"), timeoutSec |-> JNumber(5)])
EntryNotObject == JNotAnObject("not-an-object")
EntryNoType == JEntry([noTypeField |-> JBoolean(TRUE)])
EntryBadType == JEntry([type |-> JNumber(123)])
EntryBadPowershell == JEntry([type |-> JString("command"), powershell |-> JNumber(456)])

CopilotEntryValues ==
    {JArray(<<>>),
     JArray(<<EntryBash>>),
     JArray(<<EntryBash, EntryNotObject, EntryNoType, EntryBadType, EntryBadPowershell>>),
     JArray(<<EntryPowershell, EntryBoth>>),
     JArray(<<EntryBoth, EntryBash, EntryBoth>>),
     JArray(<<EntryNeither>>),
     JArray(<<EntryBadType>>),
     JNeither}

CopilotFileEvents == {"sessionStart", "userPromptSubmitted", "afterSubmitPrompt"}

CopilotFiles ==
    {InvalidJson, [version |-> 1], [version |-> 1, hooks |-> JNeither]}
      \cup {[version |-> 1, hooks |-> JObject(m)] :
              m \in HookMaps(CopilotFileEvents, CopilotEntryValues, MaxEvents)}

InitHooks ==
    /\ feature = "copilot-hooks"
    /\ \/ /\ stage = "canonical"
          /\ canonical \in HookConfigs
          /\ native = None
       \/ /\ stage = "loaded"
          /\ canonical = None
          /\ native \in CopilotFiles
    /\ reimported = None
    /\ failure = ""
    /\ platform \in {"linux", "darwin", "win32"}
    /\ global = FALSE
    /\ run = None
    /\ cache = {}
    /\ warnings = 0

CopilotHooksExport ==
    /\ feature = "copilot-hooks"
    /\ stage = "canonical"
    /\ native' = CopilotFromRulesyncHooks(canonical, platform)
    /\ stage' = "exported"
    /\ UNCHANGED <<feature, canonical, reimported, failure, platform, warnings, global, run, cache>>

CopilotHooksImport ==
    /\ feature = "copilot-hooks"
    /\ stage = "loaded"
    /\ LET r == CopilotToRulesyncHooks(native, platform)
       IN  IF r.ok
           THEN /\ reimported' = r.json
                /\ warnings' = warnings + r.warnings
                /\ stage' = "imported"
                /\ failure' = failure
           ELSE /\ reimported' = reimported
                /\ warnings' = warnings
                /\ stage' = "failed"
                /\ failure' = "Failed to parse Copilot hooks content in .github/hooks/copilot-hooks.json"
    /\ UNCHANGED <<feature, canonical, native, platform, global, run, cache>>

NextHooks == CopilotHooksExport \/ CopilotHooksImport

SpecHooks == InitHooks /\ [][NextHooks]_vars

\* ---- claims about the Copilot hooks export

HooksExported == feature = "copilot-hooks" /\ stage = "exported"

NativeNameOf(event) ==
    CASE event = "afterSubmitPrompt" -> "userPromptSubmitted"
      [] event = "afterError" -> "errorOccurred"
      [] OTHER -> event

OverrideNames == {NativeNameOf(e) : e \in MapKeys(CopilotOverrideHooks(canonical))}

\* C9: a shared event that copilot.hooks does not touch reaches the output
\* only if Copilot supports it (a shared stop never does), and then under its
\* native name: afterSubmitPrompt as userPromptSubmitted, afterError as
\* errorOccurred, any other event under its canonical name; every output event
\* is the native name of a supported shared event or of a copilot.hooks event.
C9_SharedEventsFilteredAndRenamed ==
    HooksExported =>
        LET shared == canonical.hooks
            out == native.hooks
        IN  /\ \A i \in DOMAIN shared :
                 LET event == shared[i].key
                     entries == CopilotEntries(shared[i].value, platform)
                 IN  NativeNameOf(event) \notin OverrideNames =>
                       IF event \in COPILOT_HOOK_EVENTS
                       THEN entries # <<>> =>
                              /\ NativeNameOf(event) \in MapKeys(out)
                              /\ MapGet(out, NativeNameOf(event)) = entries
                       ELSE event \notin MapKeys(out)
            /\ \A k \in MapKeys(out) :
                 \/ k \in OverrideNames
                 \/ \E e \in MapKeys(shared) \cap COPILOT_HOOK_EVENTS : k = NativeNameOf(e)
            /\ ("stop" \in MapKeys(shared) /\ "stop" \notin OverrideNames)
                 => "stop" \notin MapKeys(out)
            /\ MapKeys(out) \cap {"afterSubmitPrompt", "afterError"} = {}

C9_Witness ==
    /\ HooksExported
    /\ ~Has(canonical, "copilot")
    /\ canonical.hooks = <<[key |-> "stop", value |-> <<HookPlain>>],
                           [key |-> "afterSubmitPrompt", value |-> <<HookPlain>>]>>
    /\ MapKeys(native.hooks) = {"userPromptSubmitted"}

\* the definitions an output event may have been built from
CandidateSources(name) ==
    {kv.value : kv \in {kv \in Range(canonical.hooks) \cup Range(CopilotOverrideHooks(canonical)) :
                          NativeNameOf(kv.key) = name}}

\* the events that take part in the export, with their definitions
ExportedEvents ==
    Range(CopilotOverrideHooks(canonical))
      \cup {kv \in Range(canonical.hooks) :
              /\ kv.key \in COPILOT_HOOK_EVENTS
              /\ kv.key \notin MapKeys(CopilotOverrideHooks(canonical))}

EntryOf(entry, def) ==
    IF Has(def, "command")
    THEN Has(entry, CommandField(platform)) /\ entry[CommandField(platform)] = def.command
    ELSE Has(entry, "bash") /\ Has(def, "bash") /\ entry.bash = def.bash

\* entries are built, in order, from definitions of src that satisfy Eligible
ComesInOrderFrom(entries, src, Eligible(_)) ==
    \E f \in [DOMAIN entries -> DOMAIN src] :
        /\ \A i, j \in DOMAIN entries : i < j => f[i] < f[j]
        /\ \A i \in DOMAIN entries : Eligible(src[f[i]]) /\ EntryOf(entries[i], src[f[i]])

HooksOutputBuiltFrom(Eligible(_)) ==
    HooksExported =>
        /\ failure = ""
        /\ \A i \in DOMAIN native.hooks :
             /\ native.hooks[i].value # <<>>
             /\ \E src \in CandidateSources(native.hooks[i].key) :
                  ComesInOrderFrom(native.hooks[i].value, src, Eligible)
        /\ \A kv \in ExportedEvents :
             (/\ \A i \in DOMAIN kv.value : ~Eligible(kv.value[i])
              /\ \A other \in ExportedEvents :
                   NativeNameOf(other.key) = NativeNameOf(kv.key) => other = kv)
               => NativeNameOf(kv.key) \notin MapKeys(native.hooks)

CommandType(def) == Has(def, "type") => def.type = "command"

HasNoMatcher(def) == ~Has(def, "matcher") /\ CommandType(def)

HasNoOrEmptyMatcher(def) == (Has(def, "matcher") => def.matcher = "") /\ CommandType(def)

\* C10 as stated: every output entry comes from a definition without a
\* matcher key and of type command (absent type counting as command), in the
\* order of the definitions; an event with no such definition is not emitted.
C10_AsStated == HooksOutputBuiltFrom(HasNoMatcher)

\* C10: every output entry comes from a definition whose matcher is absent or
\* the empty string and whose type is command (absent type counting as
\* command); definitions with a non-empty matcher or of type prompt are
\* dropped without error, kept entries keep their relative order, and an event
\* whose definitions are all dropped is not emitted.
C10_OnlyUnconditionalCommands == HooksOutputBuiltFrom(HasNoOrEmptyMatcher)

C10_Witness ==
    /\ HooksExported
    /\ ~Has(canonical, "copilot")
    /\ canonical.hooks = <<[key |-> "afterError", value |-> <<HookMatcher, HookPrompt>>],
                           [key |-> "sessionStart", value |-> <<HookTimed, HookMatcher, HookPlain>>]>>
    /\ MapKeys(native.hooks) = {"sessionStart"}
    /\ Len(native.hooks[1].value) = 2
    /\ native.hooks[1].value[1][CommandField(platform)] = "b.sh"
    /\ native.hooks[1].value[2][CommandField(platform)] = "a.sh"

\* the event keys that take part in the export: the supported shared events
\* and every copilot.hooks event
ExportedKeys ==
    (MapKeys(canonical.hooks) \cap COPILOT_HOOK_EVENTS) \cup MapKeys(CopilotOverrideHooks(canonical))

\* no other exported event key has the same Copilot-native name
NameIsOwn(event) ==
    \A other \in ExportedKeys : NativeNameOf(other) = NativeNameOf(event) => other = event

OutputOf(name) == IF name \in MapKeys(native.hooks) THEN MapGet(native.hooks, name) ELSE <<>>

\* C11: an event that copilot.hooks defines is exported from the copilot.hooks
\* definitions alone, whatever the shared map holds for it; an event only in
\* the shared map (and supported) is exported from the shared definitions, an
\* event only in copilot.hooks from the copilot.hooks definitions. Stated for
\* events whose Copilot-native name no other exported event key maps to.
C11_OverrideReplacesPerEvent ==
    HooksExported =>
        LET shared == canonical.hooks
            override == CopilotOverrideHooks(canonical)
        IN  \A event \in ExportedKeys :
                NameIsOwn(event) =>
                    OutputOf(NativeNameOf(event))
                      = CopilotEntries(IF event \in MapKeys(override)
                                       THEN MapGet(override, event)
                                       ELSE MapGet(shared, event), platform)

C11_Witness ==
    /\ HooksExported
    /\ canonical.hooks = <<[key |-> "sessionStart", value |-> <<HookTimed, HookMatcher, HookPlain>>]>>
    /\ CopilotOverrideHooks(canonical) = <<[key |-> "sessionStart", value |-> <<HookNative, HookPrompt, HookTimed>>]>>
    /\ Len(OutputOf("sessionStart")) = 2
    /\ OutputOf("sessionStart")[1].bash = "run.sh"
    /\ OutputOf("sessionStart")[2][CommandField(platform)] = "b.sh"

\* the definitions the entries of an exported event are built from
SourceDefinitions(event) ==
    IF event \in MapKeys(CopilotOverrideHooks(canonical))
    THEN MapGet(CopilotOverrideHooks(canonical), event)
    ELSE MapGet(canonical.hooks, event)

\* C12: the entry built from a definition that has a command and no bash or
\* powershell key of its own has the command under powershell on win32 and
\* under bash on any other platform, and not under the other key; it has the
\* definition's timeout as timeoutSec (and no timeoutSec without a timeout);
\* it has none of the keys command, timeout, prompt, matcher, loop_limit; and
\* every key of the definition outside the canonical schema is in the entry
\* with the same value.
C12_EntryFields ==
    HooksExported =>
        \A event \in ExportedKeys :
            NameIsOwn(event) =>
                LET kept == SelectSeq(SourceDefinitions(event), HasNoOrEmptyMatcher)
                    entries == OutputOf(NativeNameOf(event))
                IN  /\ Len(entries) = Len(kept)
                    /\ \A i \in DOMAIN kept :
                         LET def == kept[i]
                             entry == entries[i]
                             used == IF platform = "win32" THEN "powershell" ELSE "bash"
                             unused == IF platform = "win32" THEN "bash" ELSE "powershell"
                         IN  (Has(def, "command") /\ ~Has(def, "bash") /\ ~Has(def, "powershell")) =>
                               /\ Has(entry, used)
                               /\ entry[used] = def.command
                               /\ ~Has(entry, unused)
                               /\ IF Has(def, "timeout")
                                  THEN Has(entry, "timeoutSec") /\ entry.timeoutSec = def.timeout
                                  ELSE ~Has(entry, "timeoutSec")
                               /\ DOMAIN entry
                                    \cap {"command", "timeout", "prompt", "matcher", "loop_limit"} = {}
                               /\ \A k \in DOMAIN def \ {"type", "command", "timeout", "prompt",
                                                         "matcher", "loop_limit"} :
                                    Has(entry, k) /\ entry[k] = def[k]

C12_Witness ==
    /\ HooksExported
    /\ platform = "win32"
    /\ canonical.hooks = <<[key |-> "sessionStart", value |-> <<HookTimed, HookMatcher, HookPlain>>]>>
    /\ ~Has(canonical, "copilot")
    /\ OutputOf("sessionStart")[1]
         = [type |-> "command", powershell |-> "b.sh", timeoutSec |-> 10, customKey |-> 123]

\* ---- claims about the Copilot hooks import

HooksImported == feature = "copilot-hooks" /\ stage = "imported"

\* the events of the imported file, none when hooks is missing or no object
FileEvents ==
    IF Has(native, "hooks") /\ native.hooks.t = "object" THEN native.hooks.v ELSE <<>>

CanonicalNameOf(name) ==
    CASE name = "userPromptSubmitted" -> "afterSubmitPrompt"
      [] name = "errorOccurred" -> "afterError"
      [] OTHER -> name

\* no other event of the file is imported under the same canonical name
ImportsAlone(i) ==
    \A j \in DOMAIN FileEvents :
        CanonicalNameOf(FileEvents[j].key) = CanonicalNameOf(FileEvents[i].key) => j = i

ImportedOf(name) ==
    IF name \in MapKeys(reimported.hooks) THEN MapGet(reimported.hooks, name) ELSE <<>>

OnlyBash(entry) == IsJString(entry, "bash") /\ ~IsJString(entry, "powershell")
OnlyPowershell(entry) == IsJString(entry, "powershell") /\ ~IsJString(entry, "bash")
BothCommands(entry) == IsJString(entry, "bash") /\ IsJString(entry, "powershell")

\* C13: the definition imported from an entry has the bash value as command
\* when only bash is a string, the powershell value when only powershell is a
\* string, and with both the powershell value on win32 and the bash value on
\* any other platform; the number of warnings logged is the number of imported
\* entries that have both.
C13_ImportCommandChoice ==
    HooksImported =>
        /\ \A i \in DOMAIN FileEvents :
             (FileEvents[i].value.t = "array" /\ ImportsAlone(i)) =>
                 LET entries == SelectSeq(FileEvents[i].value.v, ParsesAsEntry)
                     defs == ImportedOf(CanonicalNameOf(FileEvents[i].key))
                 IN  /\ Len(defs) = Len(entries)
                     /\ \A k \in DOMAIN entries :
                          LET entry == entries[k].f
                          IN  /\ OnlyBash(entry) => defs[k].command = entry.bash.s
                              /\ OnlyPowershell(entry) => defs[k].command = entry.powershell.s
                              /\ BothCommands(entry) =>
                                   defs[k].command = IF platform = "win32"
                                                     THEN entry.powershell.s ELSE entry.bash.s
        /\ warnings = Cardinality({ik \in UNION {{<<i, k>> : k \in DOMAIN FileEvents[i].value.v} :
                                                   i \in DOMAIN FileEvents} :
                                     LET raw == FileEvents[ik[1]].value.v[ik[2]]
                                     IN  FileEvents[ik[1]].value.t = "array"
                                         /\ ParsesAsEntry(raw) /\ BothCommands(raw.f)})

C13_Witness ==
    /\ HooksImported
    /\ platform = "win32"
    /\ FileEvents = <<[key |-> "sessionStart", value |-> JArray(<<EntryPowershell, EntryBoth>>)]>>
    /\ ImportedOf("sessionStart")
         = <<[type |-> "command", command |-> "run.ps1", timeout |-> 30],
             [type |-> "command", command |-> "both.ps1"]>>
    /\ warnings = 1

\* C14: every imported definition has type "command", has a command, and has
\* no key other than type, command and timeout; an event's definitions are
\* exactly those of its entries that pass the entry schema and supply bash or
\* powershell.
C14_ImportedDefinitionsValid ==
    HooksImported =>
        /\ \A i \in DOMAIN reimported.hooks :
             \A k \in DOMAIN reimported.hooks[i].value :
                 LET def == reimported.hooks[i].value[k]
                 IN  /\ Has(def, "type") /\ def.type = "command"
                     /\ Has(def, "command")
                     /\ DOMAIN def \subseteq {"type", "command", "timeout"}
        /\ \A i \in DOMAIN FileEvents :
             (FileEvents[i].value.t = "array" /\ ImportsAlone(i)) =>
                 Len(ImportedOf(CanonicalNameOf(FileEvents[i].key)))
                   = Cardinality({k \in DOMAIN FileEvents[i].value.v :
                                    LET raw == FileEvents[i].value.v[k]
                                    IN  /\ ParsesAsEntry(raw)
                                        /\ IsJString(raw.f, "bash") \/ IsJString(raw.f, "powershell")})

\* ============================ command and subagent adapters: frontmatter merge

\* rulesyncFrontmatter.<tool> ?? {}
SectionOf(frontmatter, tool) == IF Has(frontmatter, tool) THEN frontmatter[tool] ELSE <<>>

\* ClaudecodeCommand.fromRulesyncCommand
ClaudecodeCommandFromRulesync(rulesyncCommand) ==
    [frontmatter |-> Spread([description |-> rulesyncCommand.frontmatter.description],
                            SectionOf(rulesyncCommand.frontmatter, "claudecode")),
     body |-> rulesyncCommand.body,
     relativeDirPath |-> ".claude/commands",
     relativeFilePath |-> rulesyncCommand.relativeFilePath]

\* CursorCommand.fromRulesyncCommand
CursorCommandFromRulesync(rulesyncCommand) ==
    [frontmatter |-> Spread(CopyTruthy(rulesyncCommand.frontmatter, "description", "description"),
                            SectionOf(rulesyncCommand.frontmatter, "cursor")),
     body |-> rulesyncCommand.body,
     relativeDirPath |-> ".cursor/commands",
     relativeFilePath |-> rulesyncCommand.relativeFilePath]

\* OpenCodeCommand.fromRulesyncCommand, project mode
OpenCodeCommandFromRulesync(rulesyncCommand) ==
    [frontmatter |-> Spread([description |-> rulesyncCommand.frontmatter.description],
                            SectionOf(rulesyncCommand.frontmatter, "opencode")),
     body |-> rulesyncCommand.body,
     relativeDirPath |-> ".opencode/command",
     relativeFilePath |-> rulesyncCommand.relativeFilePath]

\* SimulatedCommand.fromRulesyncCommandDefault as used by FactorydroidCommand
FactorydroidCommandFromRulesync(rulesyncCommand) ==
    [frontmatter |-> [description |-> rulesyncCommand.frontmatter.description],
     body |-> rulesyncCommand.body,
     relativeDirPath |-> ".factory/commands",
     relativeFilePath |-> rulesyncCommand.relativeFilePath]

\* ClaudecodeSubagent.fromRulesyncSubagent
ClaudecodeSubagentFromRulesync(rulesyncSubagent) ==
    [frontmatter |-> Spread([name |-> rulesyncSubagent.frontmatter.name,
                             description |-> rulesyncSubagent.frontmatter.description],
                            SectionOf(rulesyncSubagent.frontmatter, "claudecode")),
     body |-> rulesyncSubagent.body,
     relativeDirPath |-> ".claude/agents",
     relativeFilePath |-> rulesyncSubagent.relativeFilePath]

\* CursorSubagent.fromRulesyncSubagent
CursorSubagentFromRulesync(rulesyncSubagent) ==
    [frontmatter |-> Spread([name |-> rulesyncSubagent.frontmatter.name,
                             description |-> rulesyncSubagent.frontmatter.description],
                            SectionOf(rulesyncSubagent.frontmatter, "cursor")),
     body |-> rulesyncSubagent.body,
     relativeDirPath |-> ".cursor/agents",
     relativeFilePath |-> rulesyncSubagent.relativeFilePath]

REQUIRED_TOOL == "agent/runSubagent"

\* normalizeTools applied to copilotSection.tools: a string becomes a list of one
normalizeTools(section) ==
    IF Has(section, "tools") /\ ~(section.tools.kind = "string" /\ section.tools.items = <<"">>)
    THEN section.tools.items ELSE <<>>

\* Array.from(new Set(list)): first occurrences in order
RECURSIVE Dedupe(_)
Dedupe(list) ==
    IF list = <<>> THEN <<>>
    ELSE LET init == Dedupe(SubSeq(list, 1, Len(list) - 1))
         IN  IF list[Len(list)] \in Range(init) THEN init ELSE Append(init, list[Len(list)])

ensureRequiredTool(tools) == Dedupe(<<REQUIRED_TOOL>> \o tools)

\* CopilotSubagent.fromRulesyncSubagent
CopilotSubagentFromRulesync(rulesyncSubagent) ==
    LET copilotSection == SectionOf(rulesyncSubagent.frontmatter, "copilot")
        mergedTools == ensureRequiredTool(normalizeTools(copilotSection))
    IN  [frontmatter |-> Spread(Spread([name |-> rulesyncSubagent.frontmatter.name,
                                        description |-> rulesyncSubagent.frontmatter.description],
                                       copilotSection),
                                Opt(mergedTools # <<>>, "tools", mergedTools)),
         body |-> rulesyncSubagent.body,
         relativeDirPath |-> ".github/agents",
         relativeFilePath |-> rulesyncSubagent.relativeFilePath]

\* OpenCodeSubagent.fromRulesyncSubagent, project mode
OpenCodeSubagentFromRulesync(rulesyncSubagent) ==
    [frontmatter |-> Spread(Spread(SectionOf(rulesyncSubagent.frontmatter, "opencode"),
                                   [description |-> rulesyncSubagent.frontmatter.description,
                                    mode |-> "subagent"]),
                            CopyTruthy(rulesyncSubagent.frontmatter, "name", "name")),
     body |-> rulesyncSubagent.body,
     relativeDirPath |-> ".opencode/agent",
     relativeFilePath |-> rulesyncSubagent.relativeFilePath]

\* ---- canonical commands and subagents the adapters are run on

ToolsString(x) == [kind |-> "string", items |-> <<x>>]
ToolsArray(x) == [kind |-> "array", items |-> x]

ToolSections ==
    {[model |-> "opus"],
     [description |-> "tool d", mode |-> "primary"],
     [name |-> "tool n", tools |-> ToolsArray(<<"read", REQUIRED_TOOL>>)],
     [tools |-> ToolsString("read")]}

SectionTools == <<"claudecode", "cursor", "opencode", "copilot">>

\* every way of giving some of the tools a section
RECURSIVE WithSections(_, _)
WithSections(frontmatters, tools) ==
    IF tools = <<>> THEN frontmatters
    ELSE WithSections({Spread(fm, sec) : fm \in frontmatters,
                                         sec \in OptionalField(Head(tools), ToolSections)},
                      Tail(tools))

MergeCommandInputs ==
    [frontmatter : WithSections({[targets |-> <<"*">>, description |-> d] : d \in {"d", ""}},
                                SectionTools),
     body : {"body"},
     relativeFilePath : {"cmd.md"}]

MergeSubagentInputs ==
    [frontmatter : WithSections({[targets |-> <<"*">>, name |-> n, description |-> "d"] :
                                    n \in {"n", ""}}, SectionTools),
     body : {"body"},
     relativeFilePath : {"agent.md"}]

CommandAdapters == {"claudecode-command", "cursor-command", "opencode-command",
                    "factorydroid-command"}
SubagentAdapters == {"claudecode-subagent", "cursor-subagent", "copilot-subagent",
                     "opencode-subagent"}

InitAdapters ==
    /\ \/ feature \in CommandAdapters /\ canonical \in MergeCommandInputs
       \/ feature \in SubagentAdapters /\ canonical \in MergeSubagentInputs
    /\ stage = "canonical"
    /\ native = None
    /\ reimported = None
    /\ failure = ""
    /\ platform = "linux"
    /\ global = FALSE
    /\ run = None
    /\ cache = {}
    /\ warnings = 0

ClaudecodeCommandExport ==
    /\ feature = "claudecode-command"
    /\ stage = "canonical"
    /\ native' = ClaudecodeCommandFromRulesync(canonical)
    /\ stage' = "exported"
    /\ UNCHANGED <<feature, canonical, reimported, failure, platform, warnings, global, run, cache>>

CursorCommandExport ==
    /\ feature = "cursor-command"
    /\ stage = "canonical"
    /\ native' = CursorCommandFromRulesync(canonical)
    /\ stage' = "exported"
    /\ UNCHANGED <<feature, canonical, reimported, failure, platform, warnings, global, run, cache>>

OpenCodeCommandExport ==
    /\ feature = "opencode-command"
    /\ stage = "canonical"
    /\ native' = OpenCodeCommandFromRulesync(canonical)
    /\ stage' = "exported"
    /\ UNCHANGED <<feature, canonical, reimported, failure, platform, warnings, global, run, cache>>

FactorydroidCommandExport ==
    /\ feature = "factorydroid-command"
    /\ stage = "canonical"
    /\ native' = FactorydroidCommandFromRulesync(canonical)
    /\ stage' = "exported"
    /\ UNCHANGED <<feature, canonical, reimported, failure, platform, warnings, global, run, cache>>

ClaudecodeSubagentExport ==
    /\ feature = "claudecode-subagent"
    /\ stage = "canonical"
    /\ native' = ClaudecodeSubagentFromRulesync(canonical)
    /\ stage' = "exported"
    /\ UNCHANGED <<feature, canonical, reimported, failure, platform, warnings, global, run, cache>>

CursorSubagentExport ==
    /\ feature = "cursor-subagent"
    /\ stage = "canonical"
    /\ native' = CursorSubagentFromRulesync(canonical)
    /\ stage' = "exported"
    /\ UNCHANGED <<feature, canonical, reimported, failure, platform, warnings, global, run, cache>>

CopilotSubagentExport ==
    /\ feature = "copilot-subagent"
    /\ stage = "canonical"
    /\ native' = CopilotSubagentFromRulesync(canonical)
    /\ stage' = "exported"
    /\ UNCHANGED <<feature, canonical, reimported, failure, platform, warnings, global, run, cache>>

OpenCodeSubagentExport ==
    /\ feature = "opencode-subagent"
    /\ stage = "canonical"
    /\ native' = OpenCodeSubagentFromRulesync(canonical)
    /\ stage' = "exported"
    /\ UNCHANGED <<feature, canonical, reimported, failure, platform, warnings, global, run, cache>>

NextAdapters ==
    \/ ClaudecodeCommandExport
    \/ CursorCommandExport
    \/ OpenCodeCommandExport
    \/ FactorydroidCommandExport
    \/ ClaudecodeSubagentExport
    \/ CursorSubagentExport
    \/ CopilotSubagentExport
    \/ OpenCodeSubagentExport

SpecAdapters == InitAdapters /\ [][NextAdapters]_vars

\* ---- claims about the command and subagent adapters

AdapterExported == feature \in CommandAdapters \cup SubagentAdapters /\ stage = "exported"

\* the tool whose section the adapter reads
ToolOfAdapter ==
    CASE feature \in {"claudecode-command", "claudecode-subagent"} -> "claudecode"
      [] feature \in {"cursor-command", "cursor-subagent"} -> "cursor"
      [] feature \in {"opencode-command", "opencode-subagent"} -> "opencode"
      [] feature = "copilot-subagent" -> "copilot"
      [] OTHER -> "factorydroid"

\* C15: for the Claude Code, Cursor, Copilot and OpenCode command and subagent
\* adapters, a description, name or mode defined in the record's section for
\* the tool is the value the tool frontmatter carries.
C15_ToolSectionWins ==
    (AdapterExported /\ feature # "factorydroid-command") =>
        LET section == SectionOf(canonical.frontmatter, ToolOfAdapter)
        IN  \A k \in DOMAIN section \cap {"description", "name", "mode"} :
                Has(native.frontmatter, k) /\ native.frontmatter[k] = section[k]

\* ======================================= Claude Code and Copilot rule adapters

\* String.prototype.replace with a pattern anchored at the end of the string
ReplaceSuffix(s, suffix, replacement) ==
    IF EndsWith(s, suffix) THEN SubSeq(s, 1, Len(s) - Len(suffix)) \o replacement ELSE s

DotInstructionsMd ==
    <<".", "i", "n", "s", "t", "r", "u", "c", "t", "i", "o", "n", "s", ".", "m", "d">>

\* x ?? fallback for an optional key
OrElse(r, k, fallback) == IF Has(r, k) THEN r[k] ELSE fallback

ExcludeAgents == {"code-review", "coding-agent"}

\* RulesyncRuleFrontmatterSchema.safeParse succeeds (the inputs vary only in
\* the value of copilot.excludeAgent)
RulesyncRuleSchemaAccepts(frontmatter) ==
    (Has(frontmatter, "copilot") /\ Has(frontmatter.copilot, "excludeAgent"))
        => frontmatter.copilot.excludeAgent \in ExcludeAgents

\* the frontmatter RulesyncRule.fromFile passes to the constructor
ValidatedFrontmatter(data) ==
    Spread([root |-> OrElse(data, "root", FALSE),
            localRoot |-> OrElse(data, "localRoot", FALSE),
            targets |-> OrElse(data, "targets", <<"*">>),
            globs |-> OrElse(data, "globs", <<>>)],
           [k \in DOMAIN data \cap {"description", "agentsmd", "cursor"} |-> data[k]])

\* RulesyncRule.fromFile on a file already split into frontmatter and content
RulesyncRuleFromFile(file) ==
    IF ~RulesyncRuleSchemaAccepts(file.frontmatter)
    THEN [ok |-> FALSE, error |-> "Invalid frontmatter in .rulesync/rules"]
    ELSE [ok |-> TRUE,
          rule |-> [frontmatter |-> ValidatedFrontmatter(file.frontmatter),
                    body |-> Trim(file.body),
                    relativeFilePath |-> file.relativeFilePath]]

\* ToolRule file content: the frontmatter block (none when it has no key) and the body
stringifyFrontmatter(body, frontmatter) == [frontmatter |-> frontmatter, body |-> body]

BodyOnly(body) == [frontmatter |-> <<>>, body |-> body]

IsRootRule(rulesyncFrontmatter) == OrElse(rulesyncFrontmatter, "root", FALSE)

\* ClaudecodeRule.getSettablePaths
ClaudecodeRulePaths(globalMode) ==
    IF globalMode
    THEN [root |-> [relativeDirPath |-> ".claude", relativeFilePath |-> <<"CLAUDE.md">>]]
    ELSE [root |-> [relativeDirPath |-> ".", relativeFilePath |-> <<"CLAUDE.md">>],
          nonRoot |-> [relativeDirPath |-> ".claude/rules"]]

\* pathsValue of ClaudecodeRule.fromRulesyncRule; <<>> as a record when undefined
PathsValueGlobsFirst(rulesyncFrontmatter) ==
    IF Has(rulesyncFrontmatter, "globs") /\ Len(rulesyncFrontmatter.globs) > 0
    THEN [paths |-> rulesyncFrontmatter.globs]
    ELSE IF Has(rulesyncFrontmatter, "claudecode") /\ Has(rulesyncFrontmatter.claudecode, "paths")
    THEN [paths |-> rulesyncFrontmatter.claudecode.paths]
    ELSE <<>>

PathsValue(rulesyncFrontmatter) ==
    IF Has(rulesyncFrontmatter, "claudecode") /\ Has(rulesyncFrontmatter.claudecode, "paths")
    THEN [paths |-> rulesyncFrontmatter.claudecode.paths]
    ELSE IF Has(rulesyncFrontmatter, "globs") /\ Len(rulesyncFrontmatter.globs) > 0
    THEN [paths |-> rulesyncFrontmatter.globs]
    ELSE <<>>

\* ClaudecodeRule.generateFileContent
ClaudecodeGenerateFileContent(body, frontmatter) ==
    IF Has(frontmatter, "paths")
    THEN stringifyFrontmatter(body, [paths |-> frontmatter.paths])
    ELSE BodyOnly(body)

\* the ClaudecodeRule constructor
ClaudecodeRuleNew(frontmatter, body, relativeDirPath, relativeFilePath, root) ==
    [frontmatter |-> frontmatter,
     body |-> body,
     relativeDirPath |-> relativeDirPath,
     relativeFilePath |-> relativeFilePath,
     root |-> root,
     fileContent |-> IF root THEN BodyOnly(body)
                     ELSE ClaudecodeGenerateFileContent(body, frontmatter)]

\* ClaudecodeRule.fromRulesyncRule
ClaudecodeRuleFromRulesyncRule(rulesyncRule, globalMode) ==
    LET rulesyncFrontmatter == rulesyncRule.frontmatter
        root == IsRootRule(rulesyncFrontmatter)
        paths == ClaudecodeRulePaths(globalMode)
        claudecodeFrontmatter == IF root THEN <<>> ELSE PathsValue(rulesyncFrontmatter)
    IN  IF root
        THEN [ok |-> TRUE,
              rule |-> ClaudecodeRuleNew(claudecodeFrontmatter, rulesyncRule.body,
                                         paths.root.relativeDirPath,
                                         paths.root.relativeFilePath, TRUE)]
        ELSE IF ~Has(paths, "nonRoot")
        THEN [ok |-> FALSE, error |-> "nonRoot path is not set"]
        ELSE [ok |-> TRUE,
              rule |-> ClaudecodeRuleNew(claudecodeFrontmatter, rulesyncRule.body,
                                         paths.nonRoot.relativeDirPath,
                                         rulesyncRule.relativeFilePath, FALSE)]

\* CopilotRule.getSettablePaths
CopilotRulePaths(globalMode) ==
    IF globalMode
    THEN [root |-> [relativeDirPath |-> ".copilot",
                    relativeFilePath |-> <<"copilot-instructions.md">>]]
    ELSE [root |-> [relativeDirPath |-> ".github",
                    relativeFilePath |-> <<"copilot-instructions.md">>],
          nonRoot |-> [relativeDirPath |-> ".github/instructions"]]

\* the CopilotRule constructor
CopilotRuleNewAlwaysFrontmatter(frontmatter, body, relativeDirPath, relativeFilePath, root) ==
    [frontmatter |-> frontmatter,
     body |-> body,
     relativeDirPath |-> relativeDirPath,
     relativeFilePath |-> relativeFilePath,
     root |-> root,
     fileContent |-> stringifyFrontmatter(body, frontmatter)]

CopilotRuleNew(frontmatter, body, relativeDirPath, relativeFilePath, root) ==
    [frontmatter |-> frontmatter,
     body |-> body,
     relativeDirPath |-> relativeDirPath,
     relativeFilePath |-> relativeFilePath,
     root |-> root,
     fileContent |-> IF root THEN BodyOnly(body) ELSE stringifyFrontmatter(body, frontmatter)]

\* applyTo of CopilotRule.fromRulesyncRule
ApplyTo(rulesyncFrontmatter) ==
    IF Has(rulesyncFrontmatter, "globs") /\ Len(rulesyncFrontmatter.globs) > 0
    THEN [applyTo |-> JoinComma(rulesyncFrontmatter.globs)]
    ELSE <<>>

\* excludeAgent of CopilotRule.fromRulesyncRule
ExcludeAgentOfAnySection(rulesyncFrontmatter) ==
    IF Has(rulesyncFrontmatter, "copilot")
    THEN Copy(rulesyncFrontmatter.copilot, "excludeAgent", "excludeAgent")
    ELSE IF Has(rulesyncFrontmatter, "cursor")
    THEN [excludeAgent |-> "code-review"]
    ELSE <<>>

ExcludeAgentOf(rulesyncFrontmatter) ==
    IF Has(rulesyncFrontmatter, "copilot")
    THEN Copy(rulesyncFrontmatter.copilot, "excludeAgent", "excludeAgent")
    ELSE <<>>

\* CopilotRule.fromRulesyncRule
CopilotRuleFromRulesyncRule(rulesyncRule, globalMode) ==
    LET rulesyncFrontmatter == rulesyncRule.frontmatter
        root == IsRootRule(rulesyncFrontmatter)
        paths == CopilotRulePaths(globalMode)
        copilotFrontmatter ==
            Spread(Spread(Copy(rulesyncFrontmatter, "description", "description"),
                          ApplyTo(rulesyncFrontmatter)),
                   ExcludeAgentOf(rulesyncFrontmatter))
    IN  IF root
        THEN [ok |-> TRUE,
              rule |-> CopilotRuleNew(copilotFrontmatter, rulesyncRule.body,
                                      paths.root.relativeDirPath,
                                      paths.root.relativeFilePath, TRUE)]
        ELSE IF ~Has(paths, "nonRoot")
        THEN [ok |-> FALSE, error |-> "nonRoot path is not set"]
        ELSE [ok |-> TRUE,
              rule |-> CopilotRuleNew(copilotFrontmatter, rulesyncRule.body,
                                      paths.nonRoot.relativeDirPath,
                                      ReplaceSuffix(rulesyncRule.relativeFilePath, DotMd, <<>>)
                                          \o DotInstructionsMd,
                                      FALSE)]

\* globs of CopilotRule.toRulesyncRule
ImportedGlobs(toolRule) ==
    IF toolRule.root THEN [globs |-> <<GlobAll>>]
    ELSE IF Has(toolRule.frontmatter, "applyTo") /\ toolRule.frontmatter.applyTo # <<>>
    THEN LET pieces == SplitComma(toolRule.frontmatter.applyTo)
         IN  [globs |-> [i \in DOMAIN pieces |-> Trim(pieces[i])]]
    ELSE <<>>

\* CopilotRule.toRulesyncRule
CopilotRuleToRulesyncRule(toolRule) ==
    [frontmatter |->
        Spread(Spread(Spread([targets |-> <<"*">>, root |-> toolRule.root],
                             Copy(toolRule.frontmatter, "description", "description")),
                      ImportedGlobs(toolRule)),
               IF Has(toolRule.frontmatter, "excludeAgent")
               THEN [copilot |-> [excludeAgent |-> toolRule.frontmatter.excludeAgent]]
               ELSE <<>>),
     body |-> toolRule.body,
     relativeFilePath |-> ReplaceSuffix(toolRule.relativeFilePath, DotInstructionsMd, DotMd)]

\* ---- canonical rules and rule files the two adapters are run on

GlobBrace == <<"{", "a", ",", "b", "}">>

ToolRuleGlobLists == SeqsUpTo({GlobSrc, GlobBrace, GlobPadded, GlobEmpty}, MaxGlobs)

ClaudecodeSections == {<<>>, [paths |-> <<>>], [paths |-> <<GlobAll>>], [paths |-> <<GlobSrc>>]}

CopilotRuleSections == {<<>>, [excludeAgent |-> "code-review"]}

OtherToolSections ==
    {<<>>, [cursor |-> [alwaysApply |-> TRUE]], [antigravity |-> [trigger |-> "manual"]]}

RuleFileNames == {<<"r">> \o DotMd, <<"r">> \o DotInstructionsMd}

\* rules built in memory, as the RulesyncRule constructor accepts them
ToolRuleInputs ==
    {[frontmatter |->
         Spread(Spread(Spread(Spread(Spread(Spread([targets |-> <<"*">>], r), d), g), cc), cp), o),
      body |-> <<"x">>,
      relativeFilePath |-> f] :
        r \in OptionalField("root", BOOLEAN),
        d \in OptionalField("description", {"d"}),
        g \in OptionalField("globs", ToolRuleGlobLists),
        cc \in OptionalField("claudecode", ClaudecodeSections),
        cp \in OptionalField("copilot", CopilotRuleSections),
        o \in OtherToolSections,
        f \in RuleFileNames}

\* rule files under .rulesync/rules, split into frontmatter and content
RuleFiles ==
    {[frontmatter |-> Spread(Spread(Spread(Spread(Spread(Spread(b, ag), cc), cu), cp), an), <<>>),
      body |-> body,
      relativeFilePath |-> <<"r">> \o DotMd] :
        b \in {<<>>, [root |-> TRUE], [globs |-> <<GlobSrc>>], [description |-> "d"]},
        ag \in OptionalField("agentsmd", {[subprojectPath |-> "sub"]}),
        cc \in OptionalField("claudecode", {[paths |-> <<GlobAll>>]}),
        cu \in OptionalField("cursor", {[alwaysApply |-> TRUE]}),
        cp \in OptionalField("copilot", {[excludeAgent |-> "code-review"],
                                         [excludeAgent |-> "other"]}),
        an \in OptionalField("antigravity", {[trigger |-> "manual"]}),
        body \in {<<"x">>, <<" ", "x", "\n">>}}

RuleAdapters == {"claudecode-rule", "copilot-rule"}

InitToolRule ==
    /\ feature \in RuleAdapters
    /\ \/ stage = "file" /\ canonical \in RuleFiles
       \/ stage = "canonical" /\ canonical \in ToolRuleInputs
    /\ native = None
    /\ reimported = None
    /\ failure = ""
    /\ platform = "linux"
    /\ warnings = 0
    /\ global \in BOOLEAN
    /\ run = None
    /\ cache = {}

\* RulesyncRule.fromFile: canonical holds the file before and the loaded rule after
RulesyncRuleLoad ==
    /\ feature \in RuleAdapters
    /\ stage = "file"
    /\ LET r == RulesyncRuleFromFile(canonical)
       IN  IF r.ok
           THEN /\ canonical' = r.rule
                /\ stage' = "canonical"
                /\ failure' = failure
           ELSE /\ canonical' = canonical
                /\ stage' = "failed"
                /\ failure' = r.error
    /\ UNCHANGED <<feature, native, reimported, platform, warnings, global, run, cache>>

ClaudecodeRuleExport ==
    /\ feature = "claudecode-rule"
    /\ stage = "canonical"
    /\ LET r == ClaudecodeRuleFromRulesyncRule(canonical, global)
       IN  IF r.ok
           THEN /\ native' = r.rule
                /\ stage' = "exported"
                /\ failure' = failure
           ELSE /\ native' = native
                /\ stage' = "failed"
                /\ failure' = r.error
    /\ UNCHANGED <<feature, canonical, reimported, platform, warnings, global, run, cache>>

CopilotRuleExport ==
    /\ feature = "copilot-rule"
    /\ stage = "canonical"
    /\ LET r == CopilotRuleFromRulesyncRule(canonical, global)
       IN  IF r.ok
           THEN /\ native' = r.rule
                /\ stage' = "exported"
                /\ failure' = failure
           ELSE /\ native' = native
                /\ stage' = "failed"
                /\ failure' = r.error
    /\ UNCHANGED <<feature, canonical, reimported, platform, warnings, global, run, cache>>

CopilotRuleImport ==
    /\ feature = "copilot-rule"
    /\ stage = "exported"
    /\ reimported' = CopilotRuleToRulesyncRule(native)
    /\ stage' = "imported"
    /\ UNCHANGED <<feature, canonical, native, failure, platform, warnings, global, run, cache>>

NextToolRule ==
    \/ RulesyncRuleLoad
    \/ ClaudecodeRuleExport
    \/ CopilotRuleExport
    \/ CopilotRuleImport

SpecToolRule == InitToolRule /\ [][NextToolRule]_vars

\* ---- one pass of any command, subagent or rule adapter above

InitIsolation == InitAdapters \/ InitToolRule

NextIsolation == NextAdapters \/ NextToolRule

SpecIsolation == InitIsolation /\ [][NextIsolation]_vars

\* ------------------------------------------------------------------ claims

ExtensionTools == {"agentsmd", "claudecode", "cursor", "copilot", "opencode", "antigravity"}

\* the tool whose extension section the running adapter is entitled to read
OwnTool ==
    CASE feature = "claudecode-rule" -> "claudecode"
      [] feature = "copilot-rule" -> "copilot"
      [] OTHER -> ToolOfAdapter

\* what fromCanonical of the running adapter produces for a record
FromCanonical(record) ==
    CASE feature = "claudecode-command" -> ClaudecodeCommandFromRulesync(record)
      [] feature = "cursor-command" -> CursorCommandFromRulesync(record)
      [] feature = "opencode-command" -> OpenCodeCommandFromRulesync(record)
      [] feature = "factorydroid-command" -> FactorydroidCommandFromRulesync(record)
      [] feature = "claudecode-subagent" -> ClaudecodeSubagentFromRulesync(record)
      [] feature = "cursor-subagent" -> CursorSubagentFromRulesync(record)
      [] feature = "copilot-subagent" -> CopilotSubagentFromRulesync(record)
      [] feature = "opencode-subagent" -> OpenCodeSubagentFromRulesync(record)
      [] feature = "claudecode-rule" -> ClaudecodeRuleFromRulesyncRule(record, global).rule
      [] feature = "copilot-rule" -> CopilotRuleFromRulesyncRule(record, global).rule

\* the sections another tool may carry in a record of the running feature
SectionsOfOtherTool(tool) ==
    IF feature \in RuleAdapters
    THEN CASE tool = "claudecode" -> ClaudecodeSections
           [] tool = "copilot" -> CopilotRuleSections
           [] tool = "antigravity" -> {[trigger |-> "manual"], [trigger |-> "glob"]}
           [] OTHER -> {[alwaysApply |-> TRUE], [description |-> "tool d"]}
    ELSE ToolSections

\* the records equal to record except inside the section of one other tool
DifferingInOtherSection(record) ==
    {[record EXCEPT !.frontmatter = Spread(Without(record.frontmatter, {tool}), section)] :
        <<tool, section>> \in
            UNION {{tool} \X OptionalField(tool, SectionsOfOtherTool(tool)) :
                       tool \in ExtensionTools \ {OwnTool}}}

AnyAdapterExported == feature \in CommandAdapters \cup SubagentAdapters \cup RuleAdapters
                      /\ stage = "exported"

\* C16: two canonical records that differ only inside the section of a tool
\* other than the adapter's own give the same tool frontmatter, body, file
\* content and output path.
C16_OtherSectionsNeverInfluence ==
    AnyAdapterExported =>
        \A other \in DifferingInOtherSection(canonical) : FromCanonical(other) = native

C16_Witness ==
    /\ AnyAdapterExported
    /\ feature = "copilot-rule"
    /\ Has(canonical.frontmatter, "claudecode")
    /\ Has(canonical.frontmatter, "cursor")
    /\ Has(canonical.frontmatter, "copilot")
    /\ native.frontmatter = [applyTo |-> GlobSrc, excludeAgent |-> "code-review"]
    /\ \E other \in DifferingInOtherSection(canonical) : other # canonical

RuleExtensionSections == {"agentsmd", "claudecode", "cursor", "copilot", "antigravity"}

\* C17: loading a rule file with RulesyncRule.fromFile leaves every tool
\* extension section of the file's frontmatter in the loaded rule's
\* frontmatter, with the same content.
C17_LoadKeepsToolSections ==
    [][(stage = "file" /\ stage' = "canonical") =>
           \A tool \in RuleExtensionSections :
               Has(canonical.frontmatter, tool) =>
                   /\ Has(canonical'.frontmatter, tool)
                   /\ canonical'.frontmatter[tool] = canonical.frontmatter[tool]]_vars

ClaudecodeRuleExported == feature = "claudecode-rule" /\ stage = "exported"

CanonicalIsRoot == Has(canonical.frontmatter, "root") /\ canonical.frontmatter.root

\* the paths the Claude Code rule is expected to carry; <<>> when none
ExpectedPaths ==
    LET fm == canonical.frontmatter
    IN  IF CanonicalIsRoot THEN <<>>
        ELSE IF Has(fm, "claudecode") /\ Has(fm.claudecode, "paths")
        THEN [paths |-> fm.claudecode.paths]
        ELSE IF Has(fm, "globs") /\ fm.globs # <<>> THEN [paths |-> fm.globs]
        ELSE <<>>

\* C18: a non-root Claude Code rule carries claudecode.paths when the record
\* defines it, else the canonical globs when there are any, else no paths; a
\* root rule never carries paths.  The written frontmatter block is the same.
C18_PathsPrecedence ==
    ClaudecodeRuleExported =>
        /\ native.frontmatter = ExpectedPaths
        /\ native.fileContent.frontmatter = ExpectedPaths

C18_Witness ==
    /\ ClaudecodeRuleExported
    /\ ~CanonicalIsRoot
    /\ Has(canonical.frontmatter, "globs")
    /\ canonical.frontmatter.globs = <<GlobSrc, GlobBrace>>
    /\ Has(canonical.frontmatter, "claudecode")
    /\ native.frontmatter = [paths |-> <<GlobAll>>]

RuleExported == feature \in RuleAdapters /\ stage = "exported"

\* C19: a root rule is written to CLAUDE.md (Claude Code) or to
\* copilot-instructions.md (Copilot, under .github in project mode), and the
\* file holds the canonical body and no frontmatter block.
C19_RootRuleIsBodyAtRootFile ==
    (RuleExported /\ CanonicalIsRoot) =>
        /\ native.fileContent = [frontmatter |-> <<>>, body |-> canonical.body]
        /\ feature = "claudecode-rule" =>
               /\ native.relativeFilePath = <<"CLAUDE.md">>
               /\ native.relativeDirPath = IF global THEN ".claude" ELSE "."
        /\ feature = "copilot-rule" =>
               /\ native.relativeFilePath = <<"copilot-instructions.md">>
               /\ native.relativeDirPath = IF global THEN ".copilot" ELSE ".github"

C19_Witness ==
    /\ RuleExported
    /\ CanonicalIsRoot
    /\ feature = "copilot-rule"
    /\ ~global
    /\ Has(canonical.frontmatter, "description")
    /\ Has(canonical.frontmatter, "globs")
    /\ canonical.frontmatter.globs # <<>>
    /\ Has(canonical.frontmatter, "copilot")
    /\ Has(native.frontmatter, "applyTo")
    /\ native.relativeDirPath = ".github"
    /\ native.fileContent.body = <<"x">>

CopilotRuleImported == feature = "copilot-rule" /\ stage = "imported"

\* C20: for a non-root rule with at least one glob and a .md file name, the
\* Copilot rule's applyTo is the globs joined with commas, and importing the
\* generated rule gives back the same globs sequence and the same file name.
C20_GlobsRoundTrip ==
    (/\ CopilotRuleImported
     /\ ~CanonicalIsRoot
     /\ Has(canonical.frontmatter, "globs")
     /\ canonical.frontmatter.globs # <<>>
     /\ EndsWith(canonical.relativeFilePath, DotMd)) =>
        /\ Has(native.frontmatter, "applyTo")
        /\ native.frontmatter.applyTo = JoinComma(canonical.frontmatter.globs)
        /\ Has(reimported.frontmatter, "globs")
        /\ reimported.frontmatter.globs = canonical.frontmatter.globs
        /\ reimported.relativeFilePath = canonical.relativeFilePath

\* ========================================================== target selection

MaxTargets == 2   \* longest targets list

\* Array.prototype.includes
Includes(list, x) == \E i \in DOMAIN list : list[i] = x

\* z._default(RulesyncTargetsSchema, ["*"]) applied to a frontmatter
WithDefaultTargets(frontmatter) ==
    IF Has(frontmatter, "targets") THEN frontmatter
    ELSE Spread(frontmatter, [targets |-> <<"*">>])

\* RulesyncSkill.getFrontmatter: the schema's output for the stored frontmatter
RulesyncSkillGetFrontmatter(rulesyncSkill) == WithDefaultTargets(rulesyncSkill.frontmatter)

\* SimulatedSkill.isTargetedByRulesyncSkillDefault
isTargetedByRulesyncSkillDefaultOwnIdOnly(rulesyncSkill, toolTarget) ==
    Includes(RulesyncSkillGetFrontmatter(rulesyncSkill).targets, toolTarget)

isTargetedByRulesyncSkillDefault(rulesyncSkill, toolTarget) ==
    LET targets == RulesyncSkillGetFrontmatter(rulesyncSkill).targets
    IN  IF Includes(targets, "*") THEN TRUE ELSE Includes(targets, toolTarget)

\* the RulesyncCommand constructor; the schema fails when description is missing
RulesyncCommandNew(params) ==
    LET success == Has(params.frontmatter, "description")
    IN  IF ~success /\ params.validate
        THEN [ok |-> FALSE, error |-> "Invalid frontmatter in .rulesync/commands/cmd.md"]
        ELSE [ok |-> TRUE,
              command |-> [frontmatter |-> WithDefaultTargets(params.frontmatter),
                           body |-> params.body]]

\* ToolCommand.isTargetedByRulesyncCommandDefault
isTargetedByRulesyncCommandDefault(rulesyncCommand, toolTarget) ==
    Includes(rulesyncCommand.frontmatter.targets, "*")
        \/ Includes(rulesyncCommand.frontmatter.targets, toolTarget)

\* ---- records and tools the check is run on

TargetNames == {"*", "claudecode", "cursor"}

TargetLists == SeqsUpTo(TargetNames, MaxTargets) \ {<<>>}

ToolTargets == {"claudecode", "codexcli", "agentsmd"}

SkillInputs ==
    {[frontmatter |-> Spread(Spread([name |-> "s", description |-> "d"], t), c), body |-> "body"] :
        t \in OptionalField("targets", TargetLists),
        c \in OptionalField("claudecode", {[model |-> "opus"]})}

CommandConstructorInputs ==
    {[frontmatter |-> Spread(Spread(d, t), c), body |-> "body", validate |-> v] :
        d \in OptionalField("description", {"d"}),
        t \in OptionalField("targets", TargetLists),
        c \in OptionalField("cursor", {[model |-> "opus"]}),
        v \in BOOLEAN}

InitTargets ==
    /\ \/ feature = "skill-targets" /\ canonical \in SkillInputs
       \/ feature = "command-targets" /\ canonical \in CommandConstructorInputs
    /\ stage = "raw"
    /\ native = None
    /\ reimported = None
    /\ failure = ""
    /\ platform = "linux"
    /\ warnings = 0
    /\ global = FALSE
    /\ run = None
    /\ cache = {}

\* a simulated skill adapter asked whether the skill is meant for its tool
SkillTargetCheck ==
    /\ feature = "skill-targets"
    /\ stage = "raw"
    /\ \E toolTarget \in ToolTargets :
           native' = [toolTarget |-> toolTarget,
                      targeted |-> isTargetedByRulesyncSkillDefault(canonical, toolTarget)]
    /\ stage' = "checked"
    /\ UNCHANGED <<feature, canonical, reimported, failure, platform, warnings, global, run, cache>>

\* new RulesyncCommand(params): reimported holds the constructed command
RulesyncCommandConstruct ==
    /\ feature = "command-targets"
    /\ stage = "raw"
    /\ LET r == RulesyncCommandNew(canonical)
       IN  IF r.ok
           THEN /\ reimported' = r.command
                /\ stage' = "canonical"
                /\ failure' = failure
           ELSE /\ reimported' = reimported
                /\ stage' = "failed"
                /\ failure' = r.error
    /\ UNCHANGED <<feature, canonical, native, platform, warnings, global, run, cache>>

\* a command adapter asked whether the constructed command is meant for its tool
CommandTargetCheck ==
    /\ feature = "command-targets"
    /\ stage = "canonical"
    /\ \E toolTarget \in ToolTargets :
           native' = [toolTarget |-> toolTarget,
                      targeted |-> isTargetedByRulesyncCommandDefault(reimported, toolTarget)]
    /\ stage' = "checked"
    /\ UNCHANGED <<feature, canonical, reimported, failure, platform, warnings, global, run, cache>>

NextTargets == SkillTargetCheck \/ RulesyncCommandConstruct \/ CommandTargetCheck

SpecTargets == InitTargets /\ [][NextTargets]_vars

\* ------------------------------------------------------------------ claims

\* the targets the record gives, ["*"] when it gives none
GivenTargets ==
    IF Has(canonical.frontmatter, "targets") THEN canonical.frontmatter.targets ELSE <<"*">>

OnlyGlobalMode == "CodexcliCommand only supports global mode. Please pass { global: true }."

\* CodexcliCommand.getSettablePaths; options.global may be absent
CodexcliGetSettablePathsFallsBack(options) ==
    [ok |-> TRUE, paths |-> [relativeDirPath |-> ".codex/prompts"]]

CodexcliGetSettablePaths(options) ==
    IF ~(Has(options, "global") /\ options.global)
    THEN [ok |-> FALSE, error |-> OnlyGlobalMode]
    ELSE [ok |-> TRUE, paths |-> [relativeDirPath |-> ".codex/prompts"]]

\* CodexcliCommand.fromRulesyncCommand; global defaults to false
CodexcliFromRulesyncCommand(params) ==
    LET paths == CodexcliGetSettablePaths([global |-> OrElse(params, "global", FALSE)])
    IN  IF ~paths.ok THEN paths
        ELSE [ok |-> TRUE,
              command |-> [fileContent |-> params.rulesyncCommand.body,
                           relativeDirPath |-> paths.paths.relativeDirPath,
                           relativeFilePath |-> params.rulesyncCommand.relativeFilePath]]

\* CodexcliCommand.fromFile; global defaults to false; the file is given by
\* whether its frontmatter block parses and by the content after the block
CodexcliFromFile(params) ==
    LET paths == CodexcliGetSettablePaths([global |-> OrElse(params, "global", FALSE)])
    IN  IF ~paths.ok THEN paths
        ELSE IF ~params.file.parses
        THEN [ok |-> FALSE, error |-> "Failed to parse frontmatter in .codex/prompts/cmd.md"]
        ELSE [ok |-> TRUE,
              command |-> [fileContent |-> Trim(params.file.content),
                           relativeDirPath |-> paths.paths.relativeDirPath,
                           relativeFilePath |-> params.relativeFilePath]]

\* ---- calls the three methods are run on

GlobalOptions == OptionalField("global", BOOLEAN)

CodexcliBodies == {<<"x">>, <<" ", "x", "\n">>, <<>>}

CodexcliExportParams ==
    {Spread(g, [rulesyncCommand |->
                   [frontmatter |-> Spread([targets |-> <<"*">>, description |-> d], c),
                    body |-> b,
                    relativeFilePath |-> f]]) :
        g \in GlobalOptions,
        d \in {"d", ""},
        c \in OptionalField("codexcli", {[model |-> "opus"]}),
        b \in CodexcliBodies,
        f \in {"cmd.md", "other.md"}}

CodexcliFileParams ==
    {Spread(g, [relativeFilePath |-> f, file |-> [parses |-> p, content |-> b]]) :
        g \in GlobalOptions,
        f \in {"cmd.md", "other.md"},
        p \in BOOLEAN,
        b \in CodexcliBodies}

InitCodexcli ==
    /\ \/ feature = "codexcli-paths" /\ canonical \in GlobalOptions
       \/ feature = "codexcli-export" /\ canonical \in CodexcliExportParams
       \/ feature = "codexcli-import" /\ canonical \in CodexcliFileParams
    /\ stage = "called"
    /\ native = None
    /\ reimported = None
    /\ failure = ""
    /\ platform = "linux"
    /\ warnings = 0
    /\ global = OrElse(canonical, "global", FALSE)
    /\ run = None
    /\ cache = {}

CodexcliPaths ==
    /\ feature = "codexcli-paths"
    /\ stage = "called"
    /\ LET r == CodexcliGetSettablePaths(canonical)
       IN  IF r.ok
           THEN /\ native' = r.paths
                /\ stage' = "returned"
                /\ failure' = failure
           ELSE /\ native' = native
                /\ stage' = "failed"
                /\ failure' = r.error
    /\ UNCHANGED <<feature, canonical, reimported, platform, warnings, global, run, cache>>

CodexcliExport ==
    /\ feature = "codexcli-export"
    /\ stage = "called"
    /\ LET r == CodexcliFromRulesyncCommand(canonical)
       IN  IF r.ok
           THEN /\ native' = r.command
                /\ stage' = "returned"
                /\ failure' = failure
           ELSE /\ native' = native
                /\ stage' = "failed"
                /\ failure' = r.error
    /\ UNCHANGED <<feature, canonical, reimported, platform, warnings, global, run, cache>>

CodexcliLoad ==
    /\ feature = "codexcli-import"
    /\ stage = "called"
    /\ LET r == CodexcliFromFile(canonical)
       IN  IF r.ok
           THEN /\ native' = r.command
                /\ stage' = "returned"
                /\ failure' = failure
           ELSE /\ native' = native
                /\ stage' = "failed"
                /\ failure' = r.error
    /\ UNCHANGED <<feature, canonical, reimported, platform, warnings, global, run, cache>>

NextCodexcli == CodexcliPaths \/ CodexcliExport \/ CodexcliLoad

SpecCodexcli == InitCodexcli /\ [][NextCodexcli]_vars

\* ------------------------------------------------------------------ claims

CodexcliCalled == feature \in {"codexcli-paths", "codexcli-export", "codexcli-import"}
                  /\ stage \in {"returned", "failed"}

GlobalRequested == Has(canonical, "global") /\ canonical.global

\* C22: without global true the three CodexcliCommand methods fail with the
\* global-mode error and yield neither a path nor a record; with global true
\* whatever they return lies in .codex/prompts.
C22_OnlyGlobalScope ==
    CodexcliCalled =>
        IF GlobalRequested
        THEN /\ feature # "codexcli-import" => stage = "returned"
             /\ stage = "returned" => native.relativeDirPath = ".codex/prompts"
             /\ failure # OnlyGlobalMode
        ELSE /\ stage = "failed"
             /\ failure = OnlyGlobalMode
             /\ native = None

C22_Witness ==
    /\ CodexcliCalled
    /\ feature = "codexcli-export"
    /\ ~Has(canonical, "global")
    /\ stage = "failed"
    /\ failure = OnlyGlobalMode

\* ================================================================ generate

MaxPasses == 3   \* most (kind, base directory, tool target) passes in one run

\* the order in which generate calls the cores
GenerateKinds == <<"ignore", "mcp", "commands", "subagents", "skills", "hooks", "rules">>

\* es-toolkit intersection: the elements of a that are in b, in a's order
Intersection(a, b) == SelectSeq(a, LAMBDA x : Includes(b, x))

RECURSIVE Flatten(_)
Flatten(seqs) == IF seqs = <<>> THEN <<>> ELSE Head(seqs) \o Flatten(Tail(seqs))

\* the tool targets of a core whose feature is enabled for them
EnabledTargets(config, kind) ==
    SelectSeq(Intersection(config.targets, config.processorTargets[kind]),
              LAMBDA toolTarget : Includes(config.features[toolTarget], kind))

Pass(kind, baseDir, toolTarget) == [kind |-> kind, baseDir |-> baseDir, toolTarget |-> toolTarget]

\* the loop nest of generateRulesCore and of the cores shaped like it
PassesByBaseDir(config, kind) ==
    LET toolTargets == EnabledTargets(config, kind)
    IN  Flatten([i \in DOMAIN config.baseDirs |->
                    [j \in DOMAIN toolTargets |->
                        Pass(kind, config.baseDirs[i], toolTargets[j])]])

\* the loop nest of generateIgnoreCore
IgnorePasses(config) ==
    IF config.global THEN <<>>
    ELSE LET toolTargets == EnabledTargets(config, "ignore")
         IN  Flatten([j \in DOMAIN toolTargets |->
                         [i \in DOMAIN config.baseDirs |->
                             Pass("ignore",
                                  IF config.baseDirs[i] = "cwd" THEN "." ELSE config.baseDirs[i],
                                  toolTargets[j])]])

\* every pass of one generate call, in execution order
AllPasses(config) ==
    Flatten([k \in DOMAIN GenerateKinds |->
                IF GenerateKinds[k] = "ignore" THEN IgnorePasses(config)
                ELSE PassesByBaseDir(config, GenerateKinds[k])])

Event(op, pass, files, count) ==
    [op |-> op, kind |-> pass.kind, baseDir |-> pass.baseDir, toolTarget |-> pass.toolTarget,
     files |-> files, count |-> count]

\* the tool files convertRulesyncFilesToToolFiles returns for n canonical files
ToolFilesOf(pass, n) == [i \in 1..n |-> [pass |-> pass, index |-> i]]

\* processFeatureGeneration; outcome says what the processor calls report
processFeatureGenerationDeletesFirst(config, pass, toolFiles, outcome) ==
    IF outcome.throwAt = "remove" /\ config.delete
    THEN [thrown |-> TRUE, events |-> <<Event("loadToolFiles", pass, <<>>, 0)>>]
    ELSE IF outcome.throwAt = "write"
    THEN [thrown |-> TRUE,
          events |-> IF config.delete
                     THEN <<Event("loadToolFiles", pass, <<>>, 0),
                            Event("removeOrphanAiFiles", pass, toolFiles, outcome.orphans)>>
                     ELSE <<>>]
    ELSE [thrown |-> FALSE,
          events |-> (IF config.delete
                      THEN <<Event("loadToolFiles", pass, <<>>, 0),
                             Event("removeOrphanAiFiles", pass, toolFiles, outcome.orphans)>>
                      ELSE <<>>)
                     \o <<Event("writeAiFiles", pass, toolFiles, outcome.written)>>,
          result |-> [count |-> outcome.written,
                      paths |-> SubSeq(toolFiles, 1, outcome.written),
                      hasDiff |-> outcome.written > 0
                                  \/ (config.delete /\ outcome.orphans > 0)]]

processFeatureGeneration(config, pass, toolFiles, outcome) ==
    IF outcome.throwAt = "write"
    THEN [thrown |-> TRUE, events |-> <<>>]
    ELSE LET write == <<Event("writeAiFiles", pass, toolFiles, outcome.written)>>
             result == [count |-> outcome.written,
                        paths |-> SubSeq(toolFiles, 1, outcome.written),
                        hasDiff |-> outcome.written > 0
                                    \/ (config.delete /\ outcome.orphans > 0)]
         IN  IF ~config.delete
             THEN [thrown |-> FALSE, events |-> write, result |-> result]
             ELSE IF outcome.throwAt = "remove"
             THEN [thrown |-> TRUE,
                   events |-> write \o <<Event("loadToolFiles", pass, <<>>, 0)>>]
             ELSE [thrown |-> FALSE,
                   events |-> write \o <<Event("loadToolFiles", pass, <<>>, 0),
                                         Event("removeOrphanAiFiles", pass, toolFiles,
                                               outcome.orphans)>>,
                   result |-> result]

\* processDirFeatureGeneration
processDirFeatureGeneration(config, pass, toolDirs, outcome) ==
    IF outcome.throwAt = "write"
    THEN [thrown |-> TRUE, events |-> <<>>]
    ELSE LET write == <<Event("writeAiDirs", pass, toolDirs, outcome.written)>>
             result == [count |-> outcome.written,
                        paths |-> SubSeq(toolDirs, 1, outcome.written),
                        hasDiff |-> outcome.written > 0
                                    \/ (config.delete /\ outcome.orphans > 0)]
         IN  IF ~config.delete
             THEN [thrown |-> FALSE, events |-> write, result |-> result]
             ELSE IF outcome.throwAt = "remove"
             THEN [thrown |-> TRUE,
                   events |-> write \o <<Event("loadToolDirsToDelete", pass, <<>>, 0)>>]
             ELSE [thrown |-> FALSE,
                   events |-> write \o <<Event("loadToolDirsToDelete", pass, <<>>, 0),
                                         Event("removeOrphanAiDirs", pass, toolDirs,
                                               outcome.orphans)>>,
                   result |-> result]

\* processEmptyFeatureGeneration
processEmptyFeatureGeneration(config, pass, outcome) ==
    IF ~config.delete
    THEN [thrown |-> FALSE, events |-> <<>>,
          result |-> [count |-> 0, paths |-> <<>>, hasDiff |-> FALSE]]
    ELSE IF outcome.throwAt = "remove"
    THEN [thrown |-> TRUE, events |-> <<Event("loadToolFiles", pass, <<>>, 0)>>]
    ELSE [thrown |-> FALSE,
          events |-> <<Event("loadToolFiles", pass, <<>>, 0),
                       Event("removeOrphanAiFiles", pass, <<>>, outcome.orphans)>>,
          result |-> [count |-> 0, paths |-> <<>>, hasDiff |-> outcome.orphans > 0]]

\* the body of one iteration of generateRulesCore, generateMcpCore,
\* generateCommandsCore and generateSubagentsCore
ConvertAndProcess(config, pass, outcome) ==
    IF outcome.throwAt = "convert" THEN [thrown |-> TRUE, events |-> <<>>]
    ELSE processFeatureGeneration(config, pass, ToolFilesOf(pass, outcome.rulesyncFiles), outcome)

\* the body of one iteration of generateSkillsCore
ConvertAndProcessDirs(config, pass, outcome) ==
    IF outcome.throwAt = "convert" THEN [thrown |-> TRUE, events |-> <<>>]
    ELSE processDirFeatureGeneration(config, pass, ToolFilesOf(pass, outcome.rulesyncFiles),
                                     outcome)

\* the body of one iteration of generateIgnoreCore and generateHooksCore
ProcessUnlessEmpty(config, pass, outcome) ==
    IF outcome.rulesyncFiles = 0 THEN processEmptyFeatureGeneration(config, pass, outcome)
    ELSE ConvertAndProcess(config, pass, outcome)

\* totalCount += result.count; allPaths.push(...result.paths); hasDiff ||= result.hasDiff
Accumulate(total, result) ==
    [count |-> total.count + result.count,
     paths |-> total.paths \o result.paths,
     hasDiff |-> total.hasDiff \/ result.hasDiff]

\* the value generate returns
GenerateResult(results) ==
    [counts |-> [k \in DOMAIN results |-> results[k].count],
     hasDiff |-> \E k \in DOMAIN results : results[k].hasDiff]

\* ---- configurations and processor outcomes generate is run on

GenerateTools == {"claudecode", "cursor"}

ClaudecodeFeatureLists ==
    {<<>>, <<"ignore">>, <<"mcp">>, <<"commands">>, <<"subagents">>, <<"skills">>, <<"hooks">>,
     <<"rules">>, <<"ignore", "rules">>, <<"hooks", "rules">>, <<"ignore", "hooks">>}

CursorFeatureLists == {<<>>, <<"ignore", "rules">>}

\* Processor.getToolTargets of each kind
ProcessorTargets ==
    [kind \in Range(GenerateKinds) |->
        IF kind = "mcp" THEN <<"claudecode">> ELSE <<"claudecode", "cursor">>]

GenerateConfigs ==
    {c \in [targets : {<<"claudecode">>, <<"cursor", "claudecode">>},
            baseDirs : {<<"cwd">>, <<"cwd", "sub">>},
            features : {[toolTarget \in GenerateTools |->
                            IF toolTarget = "claudecode" THEN cc ELSE cu] :
                            cc \in ClaudecodeFeatureLists, cu \in CursorFeatureLists},
            processorTargets : {ProcessorTargets},
            delete : BOOLEAN,
            global : BOOLEAN] :
        Len(AllPasses(c)) <= MaxPasses}

\* what the processor of one pass reports: the number of canonical files
\* loaded, the call that throws if any, the written count and the orphan count
PassOutcomes(config) ==
    {o \in [rulesyncFiles : 0..1,
            throwAt : {"none", "convert", "write", "remove"},
            written : 0..1,
            orphans : 0..1] :
        /\ o.written <= o.rulesyncFiles
        /\ o.throwAt \in {"convert", "write"} => o.written = 0
        /\ (o.throwAt # "none" \/ ~config.delete) => o.orphans = 0
        /\ o.throwAt = "remove" => config.delete}

NoResult == [count |-> 0, paths |-> <<>>, hasDiff |-> FALSE]

InitGenerate ==
    /\ feature = "generate"
    /\ stage = "running"
    /\ canonical = None
    /\ native = None
    /\ reimported = None
    /\ failure = ""
    /\ platform = "linux"
    /\ warnings = 0
    /\ cache = {}
    /\ \E config \in GenerateConfigs :
           /\ global = config.global
           /\ run = [config |-> config,
                     todo |-> AllPasses(config),
                     results |-> [kind \in Range(GenerateKinds) |-> NoResult],
                     log |-> <<>>,
                     returned |-> None]

PassOf(kind) ==
    /\ feature = "generate"
    /\ stage = "running"
    /\ run.todo # <<>>
    /\ Head(run.todo).kind = kind

\* one iteration of generateIgnoreCore: a throw is caught, logged and skipped
IgnorePass ==
    /\ PassOf("ignore")
    /\ \E outcome \in PassOutcomes(run.config) :
           LET r == ProcessUnlessEmpty(run.config, Head(run.todo), outcome)
           IN  IF r.thrown
               THEN /\ run' = [run EXCEPT !.todo = Tail(@), !.log = @ \o r.events]
                    /\ warnings' = warnings + 1
               ELSE /\ run' = [run EXCEPT !.todo = Tail(@), !.log = @ \o r.events,
                                          !.results["ignore"] = Accumulate(@, r.result)]
                    /\ warnings' = warnings
    /\ UNCHANGED <<feature, stage, canonical, native, reimported, failure, platform, global, cache>>

McpPass ==
    /\ PassOf("mcp")
    /\ \E outcome \in PassOutcomes(run.config) :
           LET r == ConvertAndProcess(run.config, Head(run.todo), outcome)
           IN  IF r.thrown
               THEN /\ run' = [run EXCEPT !.log = @ \o r.events]
                    /\ stage' = "thrown"
                    /\ failure' = "mcp"
               ELSE /\ run' = [run EXCEPT !.todo = Tail(@), !.log = @ \o r.events,
                                          !.results["mcp"] = Accumulate(@, r.result)]
                    /\ stage' = stage
                    /\ failure' = failure
    /\ UNCHANGED <<feature, canonical, native, reimported, platform, warnings, global, cache>>

CommandsPass ==
    /\ PassOf("commands")
    /\ \E outcome \in PassOutcomes(run.config) :
           LET r == ConvertAndProcess(run.config, Head(run.todo), outcome)
           IN  IF r.thrown
               THEN /\ run' = [run EXCEPT !.log = @ \o r.events]
                    /\ stage' = "thrown"
                    /\ failure' = "commands"
               ELSE /\ run' = [run EXCEPT !.todo = Tail(@), !.log = @ \o r.events,
                                          !.results["commands"] = Accumulate(@, r.result)]
                    /\ stage' = stage
                    /\ failure' = failure
    /\ UNCHANGED <<feature, canonical, native, reimported, platform, warnings, global, cache>>

SubagentsPass ==
    /\ PassOf("subagents")
    /\ \E outcome \in PassOutcomes(run.config) :
           LET r == ConvertAndProcess(run.config, Head(run.todo), outcome)
           IN  IF r.thrown
               THEN /\ run' = [run EXCEPT !.log = @ \o r.events]
                    /\ stage' = "thrown"
                    /\ failure' = "subagents"
               ELSE /\ run' = [run EXCEPT !.todo = Tail(@), !.log = @ \o r.events,
                                          !.results["subagents"] = Accumulate(@, r.result)]
                    /\ stage' = stage
                    /\ failure' = failure
    /\ UNCHANGED <<feature, canonical, native, reimported, platform, warnings, global, cache>>

SkillsPass ==
    /\ PassOf("skills")
    /\ \E outcome \in PassOutcomes(run.config) :
           LET r == ConvertAndProcessDirs(run.config, Head(run.todo), outcome)
           IN  IF r.thrown
               THEN /\ run' = [run EXCEPT !.log = @ \o r.events]
                    /\ stage' = "thrown"
                    /\ failure' = "skills"
               ELSE /\ run' = [run EXCEPT !.todo = Tail(@), !.log = @ \o r.events,
                                          !.results["skills"] = Accumulate(@, r.result)]
                    /\ stage' = stage
                    /\ failure' = failure
    /\ UNCHANGED <<feature, canonical, native, reimported, platform, warnings, global, cache>>

HooksPass ==
    /\ PassOf("hooks")
    /\ \E outcome \in PassOutcomes(run.config) :
           LET r == ProcessUnlessEmpty(run.config, Head(run.todo), outcome)
           IN  IF r.thrown
               THEN /\ run' = [run EXCEPT !.log = @ \o r.events]
                    /\ stage' = "thrown"
                    /\ failure' = "hooks"
               ELSE /\ run' = [run EXCEPT !.todo = Tail(@), !.log = @ \o r.events,
                                          !.results["hooks"] = Accumulate(@, r.result)]
                    /\ stage' = stage
                    /\ failure' = failure
    /\ UNCHANGED <<feature, canonical, native, reimported, platform, warnings, global, cache>>

RulesPass ==
    /\ PassOf("rules")
    /\ \E outcome \in PassOutcomes(run.config) :
           LET r == ConvertAndProcess(run.config, Head(run.todo), outcome)
           IN  IF r.thrown
               THEN /\ run' = [run EXCEPT !.log = @ \o r.events]
                    /\ stage' = "thrown"
                    /\ failure' = "rules"
               ELSE /\ run' = [run EXCEPT !.todo = Tail(@), !.log = @ \o r.events,
                                          !.results["rules"] = Accumulate(@, r.result)]
                    /\ stage' = stage
                    /\ failure' = failure
    /\ UNCHANGED <<feature, canonical, native, reimported, platform, warnings, global, cache>>

\* generate returns once every core has returned
GenerateReturn ==
    /\ feature = "generate"
    /\ stage = "running"
    /\ run.todo = <<>>
    /\ run' = [run EXCEPT !.returned = GenerateResult(run.results)]
    /\ stage' = "returned"
    /\ UNCHANGED <<feature, canonical, native, reimported, failure, platform, warnings, global, cache>>

NextGenerate ==
    \/ IgnorePass
    \/ McpPass
    \/ CommandsPass
    \/ SubagentsPass
    \/ SkillsPass
    \/ HooksPass
    \/ RulesPass
    \/ GenerateReturn

SpecGenerate == InitGenerate /\ [][NextGenerate]_vars

\* ---- claims about generate

\* C23: a conversion or write failure of one pass never propagates out of
\* generate; the remaining passes still run and generate still returns.
C23_FailureNeverAbortsGenerate ==
    feature = "generate" => stage # "thrown"

WriteOps == {"writeAiFiles", "writeAiDirs"}

LoadForDeletionOps == {"loadToolFiles", "loadToolDirsToDelete"}

RemoveOps == {"removeOrphanAiFiles", "removeOrphanAiDirs"}

SamePass(e, f) ==
    /\ e.kind = f.kind
    /\ e.baseDir = f.baseDir
    /\ e.toolTarget = f.toolTarget

\* C25: when generate returns, hasDiff is true if and only if in some pass
\* that ran the writer reported a written count above zero or orphan removal
\* reported a removed count above zero.
C25_HasDiffIffSomethingChanged ==
    (feature = "generate" /\ stage = "returned") =>
        (run.returned.hasDiff
            <=> \E i \in DOMAIN run.log :
                    /\ run.log[i].op \in WriteOps \cup RemoveOps
                    /\ run.log[i].count > 0)

MaxItems == 2   \* longest inner array of a metadata value

\* A metadata value is a scalar, an array of values or an object, whose
\* entries keep their insertion order.
Scalar(s) == [scalar |-> s]

Arr(items) == [array |-> items]

Obj(entries) == [object |-> entries]

Entry(key, value) == [key |-> key, value |-> value]

JNull == Scalar("null")

JUndefined == Scalar("undefined")

JZero == Scalar("0")

JFalse == Scalar("false")

JEmptyString == Scalar("''")

JTrue == Scalar("true")

IsNullish(value) == value = JNull \/ value = JUndefined

IsArray(value) == Has(value, "array")

\* isPlainObject
isPlainObject(value) == Has(value, "object")

\* deepRemoveNullishValue; JUndefined is the undefined it returns
RECURSIVE deepRemoveNullishValueKeepsArrays(_)
deepRemoveNullishValueKeepsArrays(value) ==
    IF IsNullish(value) THEN JUndefined
    ELSE IF isPlainObject(value)
    THEN LET cleaned == [i \in DOMAIN value.object |->
                            Entry(value.object[i].key,
                                  deepRemoveNullishValueKeepsArrays(value.object[i].value))]
         IN  Obj(SelectSeq(cleaned, LAMBDA e : e.value # JUndefined))
    ELSE value

RECURSIVE deepRemoveNullishValue(_)
deepRemoveNullishValue(value) ==
    IF IsNullish(value) THEN JUndefined
    ELSE IF IsArray(value)
    THEN LET cleanedArray == [i \in DOMAIN value.array |->
                                 deepRemoveNullishValue(value.array[i])]
         IN  Arr(SelectSeq(cleanedArray, LAMBDA item : item # JUndefined))
    ELSE IF isPlainObject(value)
    THEN LET cleaned == [i \in DOMAIN value.object |->
                            Entry(value.object[i].key,
                                  deepRemoveNullishValue(value.object[i].value))]
         IN  Obj(SelectSeq(cleaned, LAMBDA e : e.value # JUndefined))
    ELSE value

\* Object.entries of a value that is not a plain object
EntriesOf(obj) ==
    IF isPlainObject(obj) THEN obj.object
    ELSE IF IsArray(obj)
    THEN [i \in DOMAIN obj.array |-> Entry(ToString(i - 1), obj.array[i])]
    ELSE <<>>

\* !obj || typeof obj !== "object"
IsNoObject(obj) == Has(obj, "scalar")

\* deepRemoveNullishObject
deepRemoveNullishObject(obj) ==
    IF IsNoObject(obj) THEN Obj(<<>>)
    ELSE LET entries == EntriesOf(obj)
             cleaned == [i \in DOMAIN entries |->
                            Entry(entries[i].key, deepRemoveNullishValue(entries[i].value))]
         IN  Obj(SelectSeq(cleaned, LAMBDA e : e.value # JUndefined))

\* ---- metadata the functions are called with

ObjectsOver(keys, values) ==
    {SelectSeq([i \in DOMAIN keys |-> Entry(keys[i], f[i])], LAMBDA e : e.value # None) :
        f \in [DOMAIN keys -> values \cup {None}]}

\* nullish is the set of nullish scalars the notation has
NestedScalars(nullish) == nullish \cup {JZero, JFalse, JEmptyString}

InnerValues(nullish) ==
    NestedScalars(nullish)
    \cup {Arr(items) : items \in SeqsUpTo(NestedScalars(nullish), MaxItems)}
    \cup {Obj(entries) : entries \in ObjectsOver(<<"p", "q">>, NestedScalars(nullish))}

NestedValues(nullish) ==
    {Arr(<<v>>) : v \in InnerValues(nullish)}
    \cup {Arr(<<JNull, v>>) : v \in InnerValues(nullish)}
    \cup {Obj(<<Entry("p", v)>>) : v \in InnerValues(nullish)}
    \cup {Obj(<<Entry("p", JNull), Entry("q", v)>>) : v \in InnerValues(nullish)}

FlatMetadata(nullish) ==
    {Obj(SelectSeq(<<Entry("a", a), Entry("b", b), Entry("c", c), Entry("d", d), Entry("e", e)>>,
                   LAMBDA entry : entry.value # None)) :
        a \in {None, JNull, JZero}, b \in {None, JEmptyString} \cup nullish,
        c \in {None, JZero, JNull}, d \in {None, JFalse}, e \in {None, JEmptyString, JTrue}}

NestedMetadata(nullish) == {Obj(<<Entry("n", v)>>) : v \in NestedValues(nullish)}

\* what stringifyFrontmatter is given: an object, null or undefined
Metadata ==
    FlatMetadata({JNull, JUndefined}) \cup NestedMetadata({JNull, JUndefined})
    \cup {JNull, JUndefined}

\* what a YAML block can hold: YAML has null, but no undefined
YamlMetadata == FlatMetadata({JNull}) \cup NestedMetadata({JNull})


\* ---- gray-matter
\* A string is the sequence of its lines (the string split at "\n"), so the
\* empty string is one empty line and a string that ends with a newline has
\* an empty last line.
Delim == [delim |-> TRUE]          \* the line "---"

Blank == [blank |-> TRUE]          \* an empty line

Text == [text |-> "x"]             \* a line of prose

BadYaml == [badyaml |-> TRUE]      \* a line the YAML parser rejects, such as "a: {"

YamlLine(entry) == [yaml |-> entry]   \* the YAML of one top-level entry

EmptyText == <<Blank>>

\* newline of gray-matter's stringify: add "\n" unless the string ends with one
newline(str) == IF Len(str) > 1 /\ str[Len(str)] = Blank THEN str ELSE str \o <<Blank>>

\* a + b for a string a that ends with a newline
Concat(a, b) == SubSeq(a, 1, Len(a) - 1) \o b

YamlException == [message |-> <<"YAMLException">>, cause |-> None]

HasDuplicateKey(entries) ==
    \E i, j \in DOMAIN entries : i < j /\ entries[i].key = entries[j].key

\* the YAML engine's parse of the lines between the delimiters
YamlLoad(block) ==
    LET lines == SelectSeq(block, LAMBDA l : l # Blank)
        entries == [i \in DOMAIN lines |-> lines[i].yaml]
    IN  IF lines = <<>> THEN [ok |-> TRUE, data |-> Obj(<<>>)]
        ELSE IF lines = <<Text>> THEN [ok |-> TRUE, data |-> Scalar("x")]
        ELSE IF \E i \in DOMAIN lines : ~Has(lines[i], "yaml") THEN [ok |-> FALSE]
        ELSE IF HasDuplicateKey(entries) THEN [ok |-> FALSE]
        ELSE [ok |-> TRUE, data |-> Obj(entries)]

\* the YAML engine's stringify of an object, one line for each entry
YamlDump(data) == [i \in DOMAIN data.object |-> YamlLine(data.object[i])]

File(data, content) == [data |-> data, content |-> content]

\* parseMatter: split a leading block off and parse it
parseMatter(str) ==
    IF Head(str) # Delim THEN [ok |-> TRUE, file |-> File(Obj(<<>>), str)]
    ELSE LET rest == Tail(str)
             closing == {i \in DOMAIN rest : rest[i] = Delim}
             closeIndex == IF closing = {} THEN Len(rest) + 1
                           ELSE CHOOSE i \in closing : \A j \in closing : i <= j
             loaded == YamlLoad(SubSeq(rest, 1, closeIndex - 1))
             content == IF closeIndex >= Len(rest) THEN EmptyText
                        ELSE SubSeq(rest, closeIndex + 1, Len(rest))
         IN  IF loaded.ok THEN [ok |-> TRUE, file |-> File(loaded.data, content)]
             ELSE [ok |-> FALSE]

\* matter(input) without options: answered from matter.cache when the same
\* string was given before; the entry is stored before the block is parsed
matter(input, files) ==
    IF input = EmptyText THEN [ok |-> TRUE, file |-> File(Obj(<<>>), input), cache |-> files]
    ELSE IF \E c \in files : c.key = input
    THEN [ok |-> TRUE, file |-> (CHOOSE c \in files : c.key = input).file, cache |-> files]
    ELSE LET parsed == parseMatter(input)
         IN  IF parsed.ok
             THEN [ok |-> TRUE, file |-> parsed.file,
                   cache |-> files \cup {[key |-> input, file |-> parsed.file]}]
             ELSE [ok |-> FALSE, error |-> YamlException,
                   cache |-> files \cup {[key |-> input, file |-> File(Obj(<<>>), input)]}]

\* Object.assign({}, a, b) on entry lists
ObjectAssign(a, b) ==
    LET base == EntriesOf(IF a = Scalar("x") THEN Arr(<<a>>) ELSE a)
        merged == [i \in DOMAIN base |->
                      IF \E j \in DOMAIN b.object : b.object[j].key = base[i].key
                      THEN CHOOSE e \in Range(b.object) : e.key = base[i].key
                      ELSE base[i]]
        added == SelectSeq(b.object,
                           LAMBDA e : \A i \in DOMAIN base : base[i].key # e.key)
    IN  Obj(merged \o added)

\* matter.stringify(file, data): a string is parsed first, its own block joins the data
matterStringify(body, data, files) ==
    LET parsed == matter(body, files)
    IN  IF ~parsed.ok THEN [ok |-> FALSE, error |-> parsed.error, cache |-> parsed.cache]
        ELSE LET all == ObjectAssign(parsed.file.data, data)
                 buf == IF all.object = <<>> THEN EmptyText
                        ELSE <<Delim>> \o YamlDump(all) \o <<Delim, Blank>>
             IN  [ok |-> TRUE, cache |-> parsed.cache,
                  content |-> Concat(buf, newline(parsed.file.content))]

\* stringifyFrontmatter, on text
stringifyFrontmatterText(body, frontmatter, files) ==
    LET cleanFrontmatter == deepRemoveNullishObject(frontmatter)
    IN  matterStringify(body, cleanFrontmatter, files)

\* the Error parseFrontmatter throws for a file path
ParseError(filePath, error) ==
    [message |-> <<"Failed to parse frontmatter in ", filePath, ": ">> \o error.message,
     cause |-> error]

\* parseFrontmatter; filePath "" when the caller gives none
parseFrontmatter(content, filePath, files) ==
    LET result == matter(content, files)
    IN  IF ~result.ok
        THEN [ok |-> FALSE, cache |-> result.cache,
              error |-> IF filePath # "" THEN ParseError(filePath, result.error)
                        ELSE result.error]
        ELSE [ok |-> TRUE, cache |-> result.cache,
              frontmatter |-> deepRemoveNullishObject(result.file.data),
              body |-> result.file.content]

\* ---- the calls of the two functions

BodyWithBlock == <<Delim, YamlLine(Entry("t", JTrue)), Delim, Text>>

FrontmatterBodies ==
    {EmptyText, <<Text>>, <<Text, Blank>>, <<Blank, Text>>, <<Text, Blank, Text>>,
     <<Text, Delim, Text>>, <<Delim, Blank, Text>>, BodyWithBlock}

\* a document with a metadata block; bad puts a line into it that is not YAML
Document(data, bad, body) ==
    <<Delim>> \o YamlDump(data) \o (IF bad THEN <<BadYaml>> ELSE <<>>) \o <<Delim>> \o body

FilePaths == {"", "rules/r.md"}

StringifyCalls == [call : {"stringify"}, body : FrontmatterBodies, metadata : Metadata]

ParseCalls ==
    [call : {"parse"}, data : YamlMetadata, bad : BOOLEAN, body : {<<Text>>, <<Blank, Text, Blank>>},
     filePath : FilePaths]

InitFrontmatter ==
    /\ feature = "frontmatter"
    /\ stage = "called"
    /\ canonical \in StringifyCalls \cup ParseCalls
    /\ native = IF canonical.call = "parse"
                THEN Document(canonical.data, canonical.bad, canonical.body)
                ELSE None
    /\ reimported = None
    /\ failure = None
    /\ platform = "linux"
    /\ warnings = 0
    /\ global = FALSE
    /\ run = None
    /\ cache = {}

FrontmatterStringify ==
    /\ feature = "frontmatter"
    /\ stage = "called"
    /\ canonical.call = "stringify"
    /\ LET r == stringifyFrontmatterText(canonical.body, canonical.metadata, cache)
       IN  /\ cache' = r.cache
           /\ IF r.ok
              THEN /\ native' = r.content
                   /\ stage' = "stringified"
                   /\ failure' = failure
              ELSE /\ native' = native
                   /\ stage' = "failed"
                   /\ failure' = r.error
    /\ UNCHANGED <<feature, canonical, reimported, platform, warnings, global, run>>

\* parseFrontmatter on the text at hand; a second call stands for a later
\* caller that reads the same text in the same process
FrontmatterParse ==
    /\ feature = "frontmatter"
    /\ \/ stage = "stringified"
       \/ canonical.call = "parse" /\ stage \in {"called", "parsed", "failed"}
    /\ LET r == parseFrontmatter(native,
                                 IF canonical.call = "parse" THEN canonical.filePath ELSE "",
                                 cache)
           again == stage \in {"parsed", "failed"}
       IN  /\ cache' = r.cache
           /\ IF r.ok
              THEN /\ reimported' = [frontmatter |-> r.frontmatter, body |-> r.body]
                   /\ stage' = IF again THEN "parsed again" ELSE "parsed"
                   /\ failure' = failure
              ELSE /\ reimported' = reimported
                   /\ stage' = IF again THEN "failed again" ELSE "failed"
                   /\ failure' = r.error
    /\ UNCHANGED <<feature, canonical, native, platform, warnings, global, run>>

NextFrontmatter == FrontmatterStringify \/ FrontmatterParse

SpecFrontmatter == InitFrontmatter /\ [][NextFrontmatter]_vars

\* ---- claims about the frontmatter functions

RECURSIVE NoNullish(_)
NoNullish(value) ==
    /\ ~IsNullish(value)
    /\ IsArray(value) => \A i \in DOMAIN value.array : NoNullish(value.array[i])
    /\ isPlainObject(value) => \A i \in DOMAIN value.object : NoNullish(value.object[i].value)

\* the scalars of a value that are neither null nor undefined, each with the
\* keys that lead to it, in document order
RECURSIVE Leaves(_, _)
Leaves(value, path) ==
    IF IsNullish(value) THEN <<>>
    ELSE IF IsArray(value)
    THEN Flatten([i \in DOMAIN value.array |-> Leaves(value.array[i], path \o <<"[]">>)])
    ELSE IF isPlainObject(value)
    THEN Flatten([i \in DOMAIN value.object |->
                     Leaves(value.object[i].value, path \o <<value.object[i].key>>)])
    ELSE <<[path |-> path, scalar |-> value.scalar]>>

\* the entries of the metadata block a text starts with
BlockEntries(text) ==
    IF Head(text) # Delim THEN <<>>
    ELSE LET closing == {i \in DOMAIN text : i > 1 /\ text[i] = Delim}
             last == IF closing = {} THEN Len(text) + 1
                     ELSE CHOOSE i \in closing : \A j \in closing : i <= j
             lines == SelectSeq(SubSeq(text, 2, last - 1), LAMBDA l : Has(l, "yaml"))
         IN  [i \in DOMAIN lines |-> lines[i].yaml]

KeysOf(value) == IF isPlainObject(value) THEN {e.key : e \in Range(value.object)} ELSE {}

\* what stringifyFrontmatter wrote for the keys of the metadata it was given
WrittenMetadata ==
    Obj(SelectSeq(BlockEntries(native), LAMBDA e : e.key \in KeysOf(canonical.metadata)))

Stringified == feature = "frontmatter" /\ canonical.call = "stringify" /\ stage = "stringified"

ParsedValid ==
    feature = "frontmatter" /\ canonical.call = "parse" /\ ~canonical.bad /\ stage = "parsed"

\* C27: neither function lets a null or undefined through, at any depth of
\* objects and arrays, and every other scalar (0, false and "" too) stays
\* where it was.
C27_NullishRemovedAtEveryDepth ==
    /\ Stringified =>
           /\ NoNullish(WrittenMetadata)
           /\ Leaves(WrittenMetadata, <<>>) = Leaves(canonical.metadata, <<>>)
    /\ ParsedValid =>
           /\ NoNullish(reimported.frontmatter)
           /\ Leaves(reimported.frontmatter, <<>>) = Leaves(canonical.data, <<>>)

\* {a: null, b: undefined, c: 0, d: false, e: ""} was stringified
C27_Witness ==
    /\ Stringified
    /\ canonical.metadata = Obj(<<Entry("a", JNull), Entry("b", JUndefined), Entry("c", JZero),
                                  Entry("d", JFalse), Entry("e", JEmptyString)>>)
    /\ canonical.body = <<Text>>
    /\ native = <<Delim, YamlLine(Entry("c", JZero)), YamlLine(Entry("d", JFalse)),
                  YamlLine(Entry("e", JEmptyString)), Delim, Text, Blank>>

\* leading and trailing blank lines dropped
RECURSIVE TrimLines(_)
TrimLines(text) ==
    IF text = <<>> THEN <<>>
    ELSE IF Head(text) = Blank THEN TrimLines(Tail(text))
    ELSE IF text[Len(text)] = Blank THEN TrimLines(SubSeq(text, 1, Len(text) - 1))
    ELSE text

RoundTripped == feature = "frontmatter" /\ canonical.call = "stringify" /\ stage = "parsed"

Stripped(metadata) == deepRemoveNullishObject(metadata)

\* C28: parsing what stringifyFrontmatter wrote gives the body back up to
\* outer whitespace and the metadata with its nullish keys stripped; for
\* metadata that strips to nothing the text written is the body and a newline,
\* without a block.
C28_RoundTrip ==
    /\ RoundTripped =>
           /\ TrimLines(reimported.body) = TrimLines(canonical.body)
           /\ reimported.frontmatter = Stripped(canonical.metadata)
    /\ (Stringified /\ Stripped(canonical.metadata) = Obj(<<>>)) =>
           native \in {canonical.body, canonical.body \o <<Blank>>}

InvalidBlockParsed ==
    feature = "frontmatter" /\ canonical.call = "parse" /\ canonical.bad /\ stage # "called"

\* C29: on a text whose metadata block is invalid parseFrontmatter never
\* returns; with a file path it throws a new error whose message holds the
\* path and the parser's message and whose cause is the parser's error,
\* without one it throws the parser's error itself.
C29_InvalidBlockAlwaysThrows ==
    InvalidBlockParsed =>
        /\ stage \in {"failed", "failed again"}
        /\ IF canonical.filePath # ""
           THEN /\ Includes(failure.message, canonical.filePath)
                /\ \A i \in DOMAIN YamlException.message :
                       Includes(failure.message, YamlException.message[i])
                /\ failure.cause = YamlException
                /\ failure # YamlException
           ELSE failure = YamlException

\* ================================================================= errors
\* The message of an error is the sequence of the parts of its template:
\* the literal pieces and the interpolated values.
Lit(s) == [lit |-> s]

Str(s) == [str |-> s]

Chars(s) == [chars |-> s]

\* `Invalid trigger: sanitization resulted in empty string from "${trigger}"`
InvalidTriggerError(trigger) ==
    <<Lit("Invalid trigger: sanitization resulted in empty string from \""), Chars(trigger),
      Lit("\"")>>

\* `Server "${serverName}" has an empty command array`
EmptyCommandError(serverName) ==
    <<Lit("Server \""), Chars(serverName), Lit("\" has an empty command array")>>

\* the message of getSettablePaths without global
OnlyGlobalModeError == <<Lit(OnlyGlobalMode)>>

\* `Invalid frontmatter in ${join(baseDir, relativeDirPath, relativeFilePath)}: ${formatError(...)}`
InvalidFrontmatterError(path) ==
    <<Lit("Invalid frontmatter in "), Str(path), Lit(": "), Lit("description: Required")>>

\* the message of an error of parseFrontmatter
FrontmatterErrorMessage(error) == [i \in DOMAIN error.message |-> Str(error.message[i])]

\* ---- failing calls

OpencodeDocuments ==
    [path : {"opencode.json", "opencode.jsonc"},
     json : {[mcp |-> <<[name |-> n, config |-> [type |-> "local", command |-> c,
                                                  enabled |-> TRUE]]>>,
              tools |-> <<>>] :
                n \in {NameA, NameB}, c \in {<<>>, <<"">>, <<"npx">>}}]

CommandFilePath == ".rulesync/commands/cmd.md"

InitErrors ==
    /\ \/ feature = "error-trigger" /\ canonical \in CommandInputs
       \/ feature = "error-command-array" /\ canonical \in OpencodeDocuments
       \/ feature = "error-scope" /\ canonical \in CodexcliExportParams
       \/ feature = "error-schema" /\ canonical \in CommandConstructorInputs
       \/ feature = "error-frontmatter"
              /\ canonical \in {c \in ParseCalls : c.filePath # ""}
    /\ stage = "called"
    /\ native = None
    /\ reimported = None
    /\ failure = <<>>
    /\ platform = "linux"
    /\ warnings = 0
    /\ global = FALSE
    /\ run = None
    /\ cache = {}

\* AntigravityCommand.fromRulesyncCommand on a trigger that sanitizes to nothing
TriggerError ==
    /\ feature = "error-trigger"
    /\ stage = "called"
    /\ IF AntigravityFromRulesyncCommand(canonical).ok
       THEN stage' = "returned" /\ failure' = failure
       ELSE stage' = "failed" /\ failure' = InvalidTriggerError(resolveTrigger(canonical))
    /\ UNCHANGED <<feature, canonical, native, reimported, platform, warnings, global, run, cache>>

\* convertFromOpencodeFormat on a local server without a command
CommandArrayError ==
    /\ feature = "error-command-array"
    /\ stage = "called"
    /\ IF OpencodeToRulesyncMcp(canonical.json).ok
       THEN stage' = "returned" /\ failure' = failure
       ELSE /\ stage' = "failed"
            /\ LET mcp == canonical.json.mcp
                   first == CHOOSE i \in DOMAIN mcp :
                                /\ EmptyCommand(mcp[i].config)
                                /\ \A j \in DOMAIN mcp : EmptyCommand(mcp[j].config) => i <= j
               IN  failure' = EmptyCommandError(mcp[first].name)
    /\ UNCHANGED <<feature, canonical, native, reimported, platform, warnings, global, run, cache>>

\* CodexcliCommand.fromRulesyncCommand outside global mode
ScopeError ==
    /\ feature = "error-scope"
    /\ stage = "called"
    /\ IF CodexcliFromRulesyncCommand(canonical).ok
       THEN stage' = "returned" /\ failure' = failure
       ELSE stage' = "failed" /\ failure' = OnlyGlobalModeError
    /\ UNCHANGED <<feature, canonical, native, reimported, platform, warnings, global, run, cache>>

\* the RulesyncCommand constructor on frontmatter the schema rejects
SchemaError ==
    /\ feature = "error-schema"
    /\ stage = "called"
    /\ IF RulesyncCommandNew(canonical).ok
       THEN stage' = "returned" /\ failure' = failure
       ELSE stage' = "failed" /\ failure' = InvalidFrontmatterError(CommandFilePath)
    /\ UNCHANGED <<feature, canonical, native, reimported, platform, warnings, global, run, cache>>

\* parseFrontmatter with a file path on a block that does not parse
FrontmatterError ==
    /\ feature = "error-frontmatter"
    /\ stage = "called"
    /\ LET r == parseFrontmatter(Document(canonical.data, canonical.bad, canonical.body),
                                 canonical.filePath, cache)
       IN  /\ cache' = r.cache
           /\ IF r.ok
              THEN stage' = "returned" /\ failure' = failure
              ELSE stage' = "failed" /\ failure' = FrontmatterErrorMessage(r.error)
    /\ UNCHANGED <<feature, canonical, native, reimported, platform, warnings, global, run>>

NextErrors == TriggerError \/ CommandArrayError \/ ScopeError \/ SchemaError \/ FrontmatterError

SpecErrors == InitErrors /\ [][NextErrors]_vars

\* the path of the record or document the call was about
PathOfFailingRecord ==
    IF feature = "error-trigger" THEN Chars(canonical.relativeFilePath)
    ELSE IF feature = "error-command-array" THEN Str(canonical.path)
    ELSE IF feature = "error-scope" THEN Str(canonical.rulesyncCommand.relativeFilePath)
    ELSE IF feature = "error-schema" THEN Str(CommandFilePath)
    ELSE Str(canonical.filePath)

Carries(message, part) ==
    \E i \in DOMAIN message :
        \/ message[i] = part
        \/ /\ Has(part, "chars")
           /\ Has(message[i], "chars")
           /\ IndexOf(message[i].chars, part.chars, 1) > 0

ErrorRaised ==
    /\ feature \in {"error-trigger", "error-command-array", "error-scope", "error-schema",
                    "error-frontmatter"}
    /\ stage = "failed"

\* C24: the message of every error raised while a record is parsed,
\* validated or converted holds the file path of that record or document.
C24_EveryErrorCarriesThePath ==
    ErrorRaised => Carries(failure, PathOfFailingRecord)

\* ====================================== OpencodeMcp and the existing file

\* readFileContentOrNull: no file, an empty file, or a file holding JSON
Absent == [absent |-> TRUE]

EmptyFile == [empty |-> TRUE]

JsonFile(json) == [json |-> json]

\* !fileContent
NoContent(file) == file = Absent \/ file = EmptyFile

\* OpencodeMcp.fromRulesyncMcp: opencode.jsonc first, then opencode.json,
\* then { mcp: {} } under the name opencode.jsonc
OpencodeMcpFromRulesyncMcp(jsonc, json, mcpServers) ==
    LET fileContent == IF ~NoContent(jsonc) THEN jsonc
                       ELSE IF ~NoContent(json) THEN json
                       ELSE JsonFile([mcp |-> <<>>])
        relativeFilePath == IF NoContent(jsonc) /\ ~NoContent(json)
                            THEN "opencode.json" ELSE "opencode.jsonc"
    IN  [relativeFilePath |-> relativeFilePath,
         json |-> OpencodeFromRulesyncMcp(fileContent.json, mcpServers)]

\* ---- files and servers of the pass

OldServer == [name |-> NameB, config |-> [type |-> "local", command |-> <<"old">>,
                                          enabled |-> TRUE]]

ExistingToolMaps ==
    {<<>>,
     <<[key |-> ToolKey(NameA, ToolX), value |-> FALSE]>>,
     <<[key |-> <<"w", "r", "i", "t", "e">>, value |-> FALSE]>>}

ExistingJson ==
    {Spread(Spread(k, m), t) :
        k \in {<<>>, [model |-> "m"], [model |-> "m", theme |-> "dark"]},
        m \in OptionalField("mcp", {<<>>, <<OldServer>>}),
        t \in OptionalField("tools", ExistingToolMaps)}

OtherFile == JsonFile([model |-> "other", tools |-> <<[key |-> <<"r", "e", "a", "d">>,
                                                       value |-> TRUE]>>])

ExistingFilePairs ==
    {[jsonc |-> c, json |-> j] :
        c \in {Absent, EmptyFile}, j \in {Absent, EmptyFile} \cup {JsonFile(x) : x \in ExistingJson}}
    \cup {[jsonc |-> JsonFile(x), json |-> j] : x \in ExistingJson, j \in {Absent, OtherFile}}

FileServers ==
    {<<>>}
    \cup {<<[name |-> NameA, config |-> Spread([type |-> "stdio", command |-> "npx"], tc)]>> :
            tc \in ToolConfigs}

InitOpencodeFiles ==
    /\ feature = "opencode-files"
    /\ stage = "canonical"
    /\ canonical \in [mcpServers : FileServers, files : ExistingFilePairs]
    /\ native = None
    /\ reimported = None
    /\ failure = ""
    /\ platform = "linux"
    /\ warnings = 0
    /\ global = FALSE
    /\ run = None
    /\ cache = {}

OpencodeFileExport ==
    /\ feature = "opencode-files"
    /\ stage = "canonical"
    /\ native' = OpencodeMcpFromRulesyncMcp(canonical.files.jsonc, canonical.files.json,
                                            canonical.mcpServers)
    /\ stage' = "exported"
    /\ UNCHANGED <<feature, canonical, reimported, failure, platform, warnings, global, run, cache>>

OpencodeFileImport ==
    /\ feature = "opencode-files"
    /\ stage = "exported"
    /\ LET r == OpencodeToRulesyncMcp(native.json)
       IN  IF r.ok
           THEN /\ reimported' = r.servers
                /\ stage' = "imported"
                /\ failure' = failure
           ELSE /\ reimported' = reimported
                /\ stage' = "failed"
                /\ failure' = "empty command array"
    /\ UNCHANGED <<feature, canonical, native, platform, warnings, global, run, cache>>

NextOpencodeFiles == OpencodeFileExport \/ OpencodeFileImport

SpecOpencodeFiles == InitOpencodeFiles /\ [][NextOpencodeFiles]_vars

\* ---- claim

\* the file the pass starts from: opencode.jsonc when it has content,
\* otherwise opencode.json, otherwise nothing
ExistingFile ==
    IF Has(canonical.files.jsonc, "json") THEN canonical.files.jsonc.json
    ELSE IF Has(canonical.files.json, "json") THEN canonical.files.json.json
    ELSE <<>>

\* the tools entries the canonical servers stand for
DerivedTools ==
    UNION {
        {[key |-> ToolKey(canonical.mcpServers[i].name, tool), value |-> v] :
            tool \in ToolSet(canonical.mcpServers[i].config,
                             IF v THEN "enabledTools" ELSE "disabledTools")} :
        i \in DOMAIN canonical.mcpServers, v \in BOOLEAN}

OpencodeFileExported == feature = "opencode-files" /\ stage = "exported"

\* C30: the file written keeps every top-level key of the existing file
\* other than mcp and tools with its value, its mcp is the converted servers,
\* and its tools map holds exactly the entries derived from the servers'
\* enabledTools and disabledTools, the key being absent when there are none.
C30_OnlyMcpAndToolsReplaced ==
    OpencodeFileExported =>
        /\ DOMAIN native.json \ {"mcp", "tools"} = DOMAIN ExistingFile \ {"mcp", "tools"}
        /\ \A k \in DOMAIN ExistingFile \ {"mcp", "tools"} : native.json[k] = ExistingFile[k]
        /\ native.json.mcp = convertToOpencodeFormat(canonical.mcpServers).mcp
        /\ Has(native.json, "tools") <=> DerivedTools # {}
        /\ Has(native.json, "tools") => Range(native.json.tools) = DerivedTools
        /\ native.relativeFilePath =
               (IF Has(canonical.files.jsonc, "json") \/ ~Has(canonical.files.json, "json")
                THEN "opencode.jsonc" ELSE "opencode.json")

\* an existing opencode.jsonc with a model and a tools entry of its own was
\* rewritten for a server with an enabled tool
C30_Witness ==
    /\ OpencodeFileExported
    /\ Has(canonical.files.jsonc, "json")
    /\ Has(ExistingFile, "model")
    /\ Has(ExistingFile, "tools")
    /\ \E e \in Range(ExistingFile.tools) : e \notin DerivedTools
    /\ DerivedTools # {}
    /\ native.json.model = ExistingFile.model

====
